---- MODULE Spec2Model ----
(***************************************************************************)
(* A model of the patent retrieval engine of patent-scope-marcos:          *)
(*   - RateLimiter                      (src/patentscope_scraper.py)       *)
(*   - _make_request / _fetch_with_retry (the two fetch clients)           *)
(*   - _buscar_com_selenium / buscar_patentes (the page crawl)             *)
(*   - duplicate removal and grouping   (busca_completa, detalhes)         *)
(*   - PatentScopeParser.parse_search_results (src/app/parser.py)          *)
(* Each component has its own specification over the shared variables;     *)
(* a component's specification leaves the other components' variables at   *)
(* their idle values.                                                      *)
(***************************************************************************)
EXTENDS Integers, Sequences, FiniteSets, TLC

VARIABLES
    \* ---- RateLimiter (one instance, owned by one PatentScopeScraper)
    rate_limiter,   \* [min_delay, max_delay, consecutive_errors, success_streak, since_last]
    delay,          \* the delay computed by the last wait(), in ticks
    slept,          \* what the last wait() slept, in ticks
    last_op,        \* the last RateLimiter method that ran
    err_run,        \* record_error() calls since the last record_success()
    ok_run,         \* record_success() calls since the last record_error()
    \* ---- one call of a fetch client
    impl,           \* "fetch_with_retry" (app/scraper.py) or "make_request"
    max_retries,    \* the max_retries argument / tenacity's stop_after_attempt
    script,         \* what the portal answers to the 1st, 2nd, ... request
    attempt,        \* index of the next attempt, 0-based like range(max_retries)
    requests,       \* requests sent so far
    fpc,            \* "running", "returned" or "failed"
    fresult,        \* [body, reason, cause] of the finished call
    n_success,      \* record_success() calls made by this fetch call
    n_error,        \* record_error() calls made by this fetch call
    sleeps,         \* the back-off sleeps of this call, in whole seconds
    \* ---- one search of the Selenium scraper (buscar_patentes)
    limite,         \* the limite argument
    short_titles,   \* the <<page, row>> places whose title the portal serves too short
    cpc,            \* "start", "loop", "returned" (crawl done) or "done"
    pagina_atual,   \* _buscar_com_selenium's page counter
    patentes,       \* the records accumulated by _buscar_com_selenium
    served,         \* what the portal served, one event per page request or look-up
    crawl_result,   \* what _buscar_com_selenium returned
    resultados,     \* what buscar_patentes returned
    \* ---- duplicate removal (busca_completa_patentscope.main)
    all_patents,    \* the records collected by the searches, in order
    patents_list,   \* list(unique_patents.values())
    patents_agrupadas, \* the dict built by agrupar_por_publication_number
    detalhes_opts,  \* extrair_detalhes, max_detalhes and what the detail requests do
    dpc,            \* "start", "unique", "nothing", "enriched", "saved" or "grouped"
    \* ---- one result page handled by app/parser.py and the /search endpoint
    html,           \* the result item of the page: its elements in document order
    results,        \* what parse_search_results returned
    patent_results, \* the PatentResult list of the /search response
    ppc,            \* "start", "parsed" or "answered"
    \* ---- one page handed to extract_total_results
    count_page,     \* [counted, plain]: the page's two text-bearing elements
    total_results,  \* what extract_total_results returned
    tpc,            \* "start" or "done"
    \* ---- one query built for a search
    molecule,       \* the input text, a sequence of characters
    campo,          \* construir_query: the campo argument
    pais,           \* construir_query: the pais argument, <<>> for None
    data_inicio,    \* construir_query: the data_inicio argument, <<>> for None
    data_fim,       \* construir_query: the data_fim argument, <<>> for None
    query_class,    \* the branch _build_molecule_query took
    query,          \* the query string returned
    qpc,            \* "start", "molecule" or "construir"
    \* ---- one search_by_molecule call / POST /search request
    req_page,       \* the page argument
    req_page_size,  \* the page_size argument
    portal,         \* what the portal does: [outcome, shown, records]
    search_result,  \* the dict returned by search_by_molecule
    response,       \* what POST /search answers
    spc,            \* "start", "searched" or "answered"
    \* ---- scrapers built side by side
    heap,           \* the RateLimiter objects built so far
    scrapers,       \* per session: its rate_limiter reference and position
    portal_log,     \* the requests that reached the portal
    last_call,      \* the session and method of the last step
    \* ---- one result page of several items handled by app/parser.py
    result_page,    \* the result items of the page, in document order
    page_results,   \* what parse_search_results returned for it
    gpc,            \* "start" or "parsed"
    \* ---- one result table handled by _extrair_dados_patentes_selenium
    result_rows,    \* the <tr> rows of the table, in document order
    row_outcomes,   \* what the loop did with each row, in order
    patentes_pagina, \* the list returned
    xpc,            \* "start" or "extracted"
    \* ---- one Selenium scraper, from its construction on
    mode_arg,       \* the use_demo_mode argument of the constructor
    scraper,        \* [use_demo_mode, driver]: the attributes of the scraper
    busca_result,   \* what the last buscar_patentes returned
    searches,       \* the limite of each buscar_patentes call made so far
    mpc,            \* "new" or "ready"
    \* ---- one call of enriquecer_patentes_com_detalhes
    det_patentes,   \* the patentes argument
    max_detalhes,   \* the max_detalhes argument, <<>> for None
    det_i,          \* the loop variable i: the patent being processed
    enriquecidas,   \* patentes_enriquecidas, the list returned
    driver_log,     \* the driver.get loads, waits and sleeps of the call, in order
    epc,            \* "start" or "enriched"
    \* ---- one IncrementalSaver
    saver,          \* [chunk_size, current_data, total_saved]
    chunk_files,    \* the chunk files written so far, each a list of records
    adds,           \* add_data calls made so far
    saver_call,     \* the last method called and whether it raised
    \* ---- the request of one search
    param_molecule, \* the molecule argument
    search_type,    \* the search_type argument
    param_page,     \* the page argument
    param_page_size,\* the page_size argument
    sent_params     \* None, or the params handed to _fetch_with_retry

rlVars    == <<rate_limiter, delay, slept, last_op, err_run, ok_run>>
fetchVars == <<impl, max_retries, script, attempt, requests, fpc, fresult,
               n_success, n_error, sleeps>>
crawlVars == <<limite, short_titles, cpc, pagina_atual, patentes, served, crawl_result, resultados>>
dedupeVars == <<all_patents, patents_list, patents_agrupadas, detalhes_opts, dpc>>
parseVars  == <<html, results, patent_results, ppc>>
countVars  == <<count_page, total_results, tpc>>
queryVars  == <<molecule, campo, pais, data_inicio, data_fim, query_class, query, qpc>>
searchVars == <<req_page, req_page_size, portal, search_result, response, spc>>
sessVars   == <<heap, scrapers, portal_log, last_call>>
pageVars   == <<result_page, page_results, gpc>>
rowVars    == <<result_rows, row_outcomes, patentes_pagina, xpc>>
modeVars   == <<mode_arg, scraper, busca_result, searches, mpc>>
detVars    == <<det_patentes, max_detalhes, det_i, enriquecidas, driver_log, epc>>
saverVars  == <<saver, chunk_files, adds, saver_call>>
paramVars  == <<param_molecule, search_type, param_page, param_page_size, sent_params>>
vars      == <<rlVars, fetchVars, crawlVars, dedupeVars, parseVars, countVars,
               queryVars, searchVars, sessVars, pageVars, rowVars, modeVars,
               detVars, saverVars, paramVars>>

----------------------------------------------------------------------------
(* Arithmetic helpers *)

Min(a, b) == IF a <= b THEN a ELSE b
Max(a, b) == IF a >= b THEN a ELSE b

RECURSIVE Pow2(_)
Pow2(n) == IF n = 0 THEN 1 ELSE 2 * Pow2(n - 1)

RECURSIVE GCD(_, _)
GCD(a, b) == IF b = 0 THEN a ELSE GCD(b, a % b)

LCM(a, b) == (a * b) \div GCD(a, b)

----------------------------------------------------------------------------
(* RateLimiter *)

\* PatentScopeConfig.MIN_DELAY and MAX_DELAY, in seconds
MIN_DELAY == 1
MAX_DELAY == 3

\* Bounds of the model
MaxDelayArg == 4    \* min_delay / max_delay arguments range over 0..MaxDelayArg seconds
MaxErrors   == 4    \* consecutive_errors is explored up to this value
MaxStreak   == 3    \* success_streak is explored up to this value

\* Time is counted in ticks.  One second holds as many ticks as makes
\* max_delay / (1 + success_streak * 0.1) = 10 * max_delay / (10 + success_streak)
\* a whole number for every success_streak the model explores.
RECURSIVE LcmUpTo(_)
LcmUpTo(n) == IF n = 0 THEN 10 ELSE LCM(LcmUpTo(n - 1), 10 + n)
TicksPerSecond == LcmUpTo(MaxStreak)

\* `min_delay or self.config.MIN_DELAY`: None and 0 are both falsy (arg 0)
OrDefault(arg, default) == IF arg = 0 THEN default ELSE arg

\* RateLimiter.__init__ ; since_last stands for time.time() - last_request_time,
\* which is the whole epoch at construction (last_request_time = 0)
LongAgo == (MaxDelayArg + 1) * TicksPerSecond
RateLimiterInit(min_arg, max_arg) ==
    [min_delay          |-> OrDefault(min_arg, MIN_DELAY) * TicksPerSecond,
     max_delay          |-> OrDefault(max_arg, MAX_DELAY) * TicksPerSecond,
     consecutive_errors |-> 0,
     success_streak     |-> 0,
     since_last         |-> LongAgo]

\* ComputeDelay without the cap at max_delay
ComputeDelayMut(rl) ==
    IF rl.consecutive_errors > 0
    THEN rl.min_delay * Pow2(rl.consecutive_errors)
    ELSE Max(rl.min_delay, (10 * rl.max_delay) \div (10 + rl.success_streak))

\* The adaptive delay of RateLimiter.wait (adaptive is True for every
\* RateLimiter the scraper builds)
ComputeDelay(rl) ==
    IF rl.consecutive_errors > 0
    THEN Min(rl.min_delay * Pow2(rl.consecutive_errors), rl.max_delay)
    ELSE Max(rl.min_delay, (10 * rl.max_delay) \div (10 + rl.success_streak))

\* a wait() that never sleeps
SleepForMut(rl) == 0
\* time.sleep(delay - elapsed) when elapsed < delay
SleepFor(rl) ==
    IF rl.since_last < ComputeDelay(rl) THEN ComputeDelay(rl) - rl.since_last ELSE 0

\* wait(): last_request_time = time.time()
wait(rl) == [rl EXCEPT !.since_last = 0]

\* record_success that forgets the reset
ResetErrorsMut(n) == n
\* self.consecutive_errors = 0
ResetErrors(n) == 0

record_success(rl) ==
    [rl EXCEPT !.consecutive_errors = ResetErrors(@),
               !.success_streak = @ + 1]

record_error(rl) ==
    [rl EXCEPT !.consecutive_errors = @ + 1,
               !.success_streak = 0]

\* The idle values of the rate limiter's variables
RLInit(min_arg, max_arg) ==
    /\ rate_limiter = RateLimiterInit(min_arg, max_arg)
    /\ delay = 0
    /\ slept = 0
    /\ last_op = "init"
    /\ err_run = 0
    /\ ok_run = 0

\* RateLimiter.wait()
Wait ==
    /\ delay' = ComputeDelay(rate_limiter)
    /\ slept' = SleepFor(rate_limiter)
    /\ rate_limiter' = wait(rate_limiter)
    /\ last_op' = "wait"
    /\ UNCHANGED <<err_run, ok_run>>

\* RateLimiter.record_success()
RecordSuccess ==
    /\ rate_limiter.success_streak < MaxStreak
    /\ rate_limiter' = record_success(rate_limiter)
    /\ last_op' = "record_success"
    /\ ok_run' = ok_run + 1
    /\ err_run' = 0
    /\ UNCHANGED <<delay, slept>>

\* RateLimiter.record_error()
RecordError ==
    /\ rate_limiter.consecutive_errors < MaxErrors
    /\ rate_limiter' = record_error(rate_limiter)
    /\ last_op' = "record_error"
    /\ err_run' = err_run + 1
    /\ ok_run' = 0
    /\ UNCHANGED <<delay, slept>>

\* The clock advances by one second between two calls
TimePasses ==
    /\ rate_limiter.since_last < LongAgo
    /\ rate_limiter' = [rate_limiter EXCEPT
                          !.since_last = Min(@ + TicksPerSecond, LongAgo)]
    /\ UNCHANGED <<delay, slept, last_op, err_run, ok_run>>

----------------------------------------------------------------------------
(* The fetch clients *)

\* tenacity's stop_after_attempt(3) on _make_request
StopAfterAttempt == 3
\* the largest max_retries argument explored (the default is 3)
MaxRetriesArg == 3
\* asyncio.sleep(5) on a 429
RateLimitCooldown == 5
\* wait_exponential(multiplier=1, min=2, max=10)
RetryMinWait == 2
RetryMaxWait == 10

Outcomes == {"s200", "s204", "s404", "s429", "s500", "timeout", "neterr"}

ScriptLen == Max(MaxRetriesArg, StopAfterAttempt)

NoResult == [body |-> 0, reason |-> "none", cause |-> "none"]

\* response.text of the n-th response: a body is known by the request it answers
ResponseText(n) == n

\* range(max_retries): attempt is in the loop while attempt < max_retries
InRange(a, m) == a < m

\* `if attempt == max_retries - 1`
IsLastAttempt(a, m) == a = m - 1

\* What one iteration of _fetch_with_retry does with the response or exception:
\* "return", "continue" (explicitly or by falling off the try), or an exception
\* class that its except clauses catch
FetchStep(o) ==
    CASE o = "s200"    -> "return"
      [] o = "s429"    -> "continue"                \* after asyncio.sleep(5)
      [] o = "s500"    -> "continue"
      [] o = "s204"    -> "continue"                \* raise_for_status() returns
      [] o = "s404"    -> "HTTPError"               \* raise_for_status() raises
      [] o = "timeout" -> "TimeoutException"
      [] o = "neterr"  -> "HTTPError"

\* The sleeps of attempt a of _fetch_with_retry: 2 ** attempt (plus a jitter
\* below one second) before a retry, 5 after a 429
FetchSleeps(a, o) ==
    (IF a > 0 THEN <<Pow2(a)>> ELSE <<>>) \o
    (IF o = "s429" THEN <<RateLimitCooldown>> ELSE <<>>)

\* _fetch_with_retry: one iteration of `for attempt in range(max_retries)`,
\* and the raise after the loop when that was its last iteration
FetchAttempt ==
    /\ impl = "fetch_with_retry"
    /\ fpc = "running"
    /\ InRange(attempt, max_retries)
    /\ LET o    == script[requests + 1]
           step == FetchStep(o)
       IN  /\ requests' = requests + 1
           /\ sleeps' = sleeps \o FetchSleeps(attempt, o)
           /\ attempt' = attempt + 1
           /\ IF step = "return"
              THEN /\ fpc' = "returned"
                   /\ fresult' = [NoResult EXCEPT !.body = ResponseText(requests + 1)]
              ELSE IF step = "TimeoutException" /\ IsLastAttempt(attempt, max_retries)
              THEN /\ fpc' = "failed"
                   /\ fresult' = [NoResult EXCEPT !.reason = "Timeout"]
              ELSE IF step = "HTTPError" /\ IsLastAttempt(attempt, max_retries)
              THEN /\ fpc' = "failed"
                   /\ fresult' = [NoResult EXCEPT !.reason = "HTTPError"]
              ELSE IF ~InRange(attempt + 1, max_retries)
              THEN /\ fpc' = "failed"
                   /\ fresult' = [NoResult EXCEPT !.reason = "RetriesExhausted"]
              ELSE /\ fpc' = "running"
                   /\ fresult' = fresult
    /\ UNCHANGED <<impl, max_retries, script, n_success, n_error>>
    /\ UNCHANGED rlVars

\* requests' raise_for_status raises for 400 <= status < 600 only
RaisesRequestException(o) == o \in {"s404", "s429", "s500", "timeout", "neterr"}

ExceptionClass(o) ==
    CASE o = "timeout" -> "Timeout"
      [] o = "neterr"  -> "ConnectionError"
      [] OTHER         -> "HTTPError"

\* wait_exponential after the n-th attempt (n counts from 1)
TenacityWait(n) == Max(RetryMinWait, Min(RetryMaxWait, Pow2(n - 1)))

\* time.sleep(seconds) seen from the limiter: the time since its last request
\* grows by as much (readings of LongAgo and more are not told apart)
Sleep(rl, seconds) ==
    [rl EXCEPT !.since_last = Min(@ + seconds * TicksPerSecond, LongAgo)]

\* _make_request: one attempt under tenacity's @retry: wait(), the request,
\* record_success() or record_error(), and tenacity's stop or sleep
MakeRequestAttempt ==
    /\ impl = "make_request"
    /\ fpc = "running"
    /\ attempt < max_retries
    /\ LET o == script[requests + 1]
           w == wait(rate_limiter)
       IN  /\ requests' = requests + 1
           /\ attempt' = attempt + 1
           /\ delay' = ComputeDelay(rate_limiter)
           /\ slept' = SleepFor(rate_limiter)
           /\ IF RaisesRequestException(o)
              THEN /\ rate_limiter' =
                         IF attempt + 1 >= max_retries THEN record_error(w)
                         ELSE Sleep(record_error(w), TenacityWait(attempt + 1))
                   /\ last_op' = "record_error"
                   /\ err_run' = err_run + 1
                   /\ ok_run' = 0
                   /\ n_error' = n_error + 1
                   /\ n_success' = n_success
                   /\ IF attempt + 1 >= max_retries
                      THEN /\ fpc' = "failed"
                           /\ fresult' = [NoResult EXCEPT !.reason = "RetryError",
                                                          !.cause = ExceptionClass(o)]
                           /\ sleeps' = sleeps
                      ELSE /\ fpc' = "running"
                           /\ fresult' = fresult
                           /\ sleeps' = Append(sleeps, TenacityWait(attempt + 1))
              ELSE /\ rate_limiter' = record_success(w)
                   /\ last_op' = "record_success"
                   /\ ok_run' = ok_run + 1
                   /\ err_run' = 0
                   /\ n_success' = n_success + 1
                   /\ n_error' = n_error
                   /\ fpc' = "returned"
                   /\ fresult' = [NoResult EXCEPT !.body = ResponseText(requests + 1)]
                   /\ sleeps' = sleeps
    /\ UNCHANGED <<impl, max_retries, script>>

\* The idle values of the fetch variables
FetchIdle ==
    /\ impl = "none"
    /\ max_retries = 0
    /\ script = <<>>
    /\ attempt = 0
    /\ requests = 0
    /\ fpc = "idle"
    /\ fresult = NoResult
    /\ n_success = 0
    /\ n_error = 0
    /\ sleeps = <<>>

\* A call of one of the two clients against a portal that answers by script
FetchInit ==
    /\ impl \in {"fetch_with_retry", "make_request"}
    /\ max_retries \in (IF impl = "make_request" THEN {StopAfterAttempt}
                        ELSE 1..MaxRetriesArg)
    /\ script \in [1..ScriptLen -> Outcomes]
    /\ attempt = 0
    /\ requests = 0
    /\ fpc = "running"
    /\ fresult = NoResult
    /\ n_success = 0
    /\ n_error = 0
    /\ sleeps = <<>>

----------------------------------------------------------------------------
(* The page crawl of the Selenium scraper *)

\* max_paginas, the safety cap of _buscar_com_selenium
max_paginas == 10
\* PatentScopeValidationConfig.MIN_TITLE_LENGTH
MIN_TITLE_LENGTH == 5

\* Bounds of the model
MaxLimite   == 11   \* limite ranges over 1..MaxLimite
MaxPageRows == 2    \* a result page holds 0..MaxPageRows extracted records

\* A record that _extrair_dados_patentes_selenium appended: it has a
\* publication number (here the page and row it came from) and a non-empty
\* title, of which the model keeps the length
Patente(p, i, len) == [publicationNumber |-> <<p, i>>, title_len |-> len]

\* The places where the portal may serve a title one character short of
\* MIN_TITLE_LENGTH: the first row of the first two pages
ShortCandidates == {<<p, 1>> : p \in 1..2}

\* The records extracted from the p-th page served when it holds n rows
PageRows(p, n) ==
    [i \in 1..n |-> Patente(p, i, IF <<p, i>> \in short_titles
                                  THEN MIN_TITLE_LENGTH - 1
                                  ELSE MIN_TITLE_LENGTH)]

PagesServed(p) == {PageRows(p, n) : n \in 0..MaxPageRows}

\* a crawl that puts the new page in front
ExtendFrontMut(acc, pagina) == pagina \o acc
\* patentes.extend(patentes_pagina)
Extend(acc, pagina) == acc \o pagina

\* patentes[:limite], for limite >= 0
Truncate(ps, lim) == SubSeq(ps, 1, Min(lim, Len(ps)))

\* a loop without the page cap
LoopConditionMut(ps, lim, pag) == Len(ps) < lim
\* `while len(patentes) < limite and pagina_atual < max_paginas`
LoopCondition(ps, lim, pag) == Len(ps) < lim /\ pag < max_paginas

\* DataValidator.validate_patent
validate_patent(r) ==
    /\ r.publicationNumber # <<>>
    /\ r.title_len > 0
    /\ r.title_len >= MIN_TITLE_LENGTH

\* The loop of buscar_patentes over the crawl's records
RECURSIVE ValidateLoop(_, _, _)
ValidateLoop(ps, res, lim) ==
    IF ps = <<>> THEN res
    ELSE IF validate_patent(Head(ps))
         THEN IF Len(res) + 1 >= lim THEN Append(res, Head(ps))
              ELSE ValidateLoop(Tail(ps), Append(res, Head(ps)), lim)
         ELSE ValidateLoop(Tail(ps), res, lim)

PageEvent(rows) == [kind |-> "page", rows |-> rows]
OtherEvent(k)   == [kind |-> k, rows |-> <<>>]

\* Leaves the crawl through `patentes = patentes[:limite]` and `return patentes`
ReturnTruncated(ps) ==
    /\ cpc' = "returned"
    /\ patentes' = ps
    /\ crawl_result' = Truncate(ps, limite)

\* _buscar_com_selenium up to the extraction of the first result page
FirstPage ==
    /\ cpc = "start"
    /\ \/ \* an exception before the results are read: the outer except clauses
          /\ served' = Append(served, OtherEvent("error"))
          /\ cpc' = "returned"
          /\ crawl_result' = patentes
          /\ UNCHANGED <<patentes, pagina_atual>>
       \/ \* no search field, no result page or "No results": `return []`
          /\ served' = Append(served, OtherEvent("noresults"))
          /\ cpc' = "returned"
          /\ crawl_result' = <<>>
          /\ UNCHANGED <<patentes, pagina_atual>>
       \/ \E rows \in PagesServed(1) :
          /\ served' = Append(served, PageEvent(rows))
          /\ patentes' = rows
          /\ pagina_atual' = 1
          /\ cpc' = "loop"
          /\ UNCHANGED crawl_result
    /\ UNCHANGED <<limite, short_titles, resultados>>

\* One iteration of the pagination loop of _buscar_com_selenium
NextPage ==
    /\ cpc = "loop"
    /\ LoopCondition(patentes, limite, pagina_atual)
    /\ \/ \* no next-page control is displayed and enabled
          /\ served' = Append(served, OtherEvent("nonext"))
          /\ ReturnTruncated(patentes)
          /\ UNCHANGED pagina_atual
       \/ \* the click or the read of the page raises: `except Exception: break`
          /\ served' = Append(served, OtherEvent("error"))
          /\ ReturnTruncated(patentes)
          /\ UNCHANGED pagina_atual
       \/ \E rows \in PagesServed(pagina_atual + 1) :
          /\ served' = Append(served, PageEvent(rows))
          /\ IF Len(rows) = 0
             THEN /\ ReturnTruncated(patentes)
                  /\ UNCHANGED pagina_atual
             ELSE /\ pagina_atual' = pagina_atual + 1
                  /\ IF Len(Extend(patentes, rows)) >= limite
                     THEN ReturnTruncated(Extend(patentes, rows))
                     ELSE /\ patentes' = Extend(patentes, rows)
                          /\ UNCHANGED <<cpc, crawl_result>>
    /\ UNCHANGED <<limite, short_titles, resultados>>

\* The loop condition fails: the limit is met or the page cap is reached
LoopExit ==
    /\ cpc = "loop"
    /\ ~LoopCondition(patentes, limite, pagina_atual)
    /\ ReturnTruncated(patentes)
    /\ UNCHANGED <<limite, short_titles, pagina_atual, served, resultados>>

\* buscar_patentes: validates what the crawl returned
ValidateResults ==
    /\ cpc = "returned"
    /\ resultados' = ValidateLoop(crawl_result, <<>>, limite)
    /\ cpc' = "done"
    /\ UNCHANGED <<limite, short_titles, pagina_atual, patentes, served,
                   crawl_result>>

\* The idle values of the crawl variables
CrawlIdle ==
    /\ limite = 0
    /\ short_titles = {}
    /\ cpc = "idle"
    /\ pagina_atual = 0
    /\ patentes = <<>>
    /\ served = <<>>
    /\ crawl_result = <<>>
    /\ resultados = <<>>

\* buscar_patentes(termo, limite=...) on a scraper with a live driver
CrawlInit ==
    /\ limite \in 1..MaxLimite
    /\ short_titles \in SUBSET ShortCandidates
    /\ cpc = "start"
    /\ pagina_atual = 0
    /\ patentes = <<>>
    /\ served = <<>>
    /\ crawl_result = <<>>
    /\ resultados = <<>>

----------------------------------------------------------------------------
(* Duplicate removal: busca_completa_patentscope.main and
   patentscope_detalhes.agrupar_por_publication_number *)

MaxPatents == 3        \* all_patents holds 0..MaxPatents records

\* '' stands for a missing or empty field (dict.get(..., '') is falsy for both)
PubNumbers == {"", "WO1", "WO2"}
RecordIds  == {"", "id1"}
RecordTitles == {"first", "second"}

\* A record as a search hands it over: a record with an id has the detailUrl
\* of that id, the key detalhes_completos is missing (<<>>)
PatentRecord(pub_num, id, title) ==
    [ publicationNumber |-> pub_num, id |-> id, title |-> title,
      detailUrl |-> IF id # "" THEN <<"detail.jsf?docId=", id>> ELSE <<>>,
      detalhes_completos |-> <<>> ]

PatentRecords ==
    { PatentRecord(n, i, t) : n \in PubNumbers, i \in RecordIds, t \in RecordTitles }

\* What main() is told about the details: extrair_detalhes, max_detalhes
\* (<<>> is None) and what the detail requests do: every page is read, no
\* page is read, or enriquecer_patentes_com_detalhes raises
DetalhesOpts ==
    { [extrair |-> FALSE, max |-> <<>>, pages |-> "none"] } \cup
    [ extrair : {TRUE},
      max     : {<<>>} \cup { <<k>> : k \in 0..MaxPatents },
      pages   : {"read", "unread", "raises"} ]

\* A Python dict, kept in insertion order: a sequence of [key, value]
DictHas(d, k) == \E i \in 1..Len(d) : d[i].key = k

\* d[k] = v : a new key goes last, an existing key keeps its place
DictSet(d, k, v) ==
    IF DictHas(d, k)
    THEN [i \in 1..Len(d) |-> IF d[i].key = k THEN [key |-> k, value |-> v] ELSE d[i]]
    ELSE Append(d, [key |-> k, value |-> v])

DictValues(d) == [i \in 1..Len(d) |-> d[i].value]

\* for p in all_patents: if pub_num and pub_num not in unique_patents: ...
RECURSIVE UniquePatents(_, _)
UniquePatents(ps, unique_patents) ==
    IF ps = <<>> THEN unique_patents
    ELSE LET p == Head(ps)
             pub_num == p.publicationNumber
         IN  UniquePatents(Tail(ps),
                 IF pub_num # "" /\ ~DictHas(unique_patents, pub_num)
                 THEN DictSet(unique_patents, pub_num, p)
                 ELSE unique_patents)

\* for patente in patentes: if pub_num: agrupadas[pub_num] = patente
RECURSIVE AgruparLoop(_, _)
AgruparLoop(ps, agrupadas) ==
    IF ps = <<>> THEN agrupadas
    ELSE LET patente == Head(ps)
             pub_num == patente.publicationNumber
         IN  AgruparLoop(Tail(ps),
                 IF pub_num # "" THEN DictSet(agrupadas, pub_num, patente)
                 ELSE agrupadas)

agrupar_por_publication_number(ps) == AgruparLoop(ps, <<>>)

\* PatentScopeDetailExtractor.obter_detalhes_completos(patente), page_ok
\* telling whether the detail page could be read
obter_detalhes_completos(patente, page_ok) ==
    IF patente.detailUrl = <<>> THEN patente
    ELSE IF page_ok
         THEN [patente EXCEPT !.detalhes_completos = <<"campos", patente.publicationNumber>>]
         ELSE patente

\* patentes[:max_detalhes] if max_detalhes else patentes
ParaProcessar(ps, max) ==
    IF max # <<>> /\ max[1] # 0 THEN Truncate(ps, max[1]) ELSE ps

\* enriquecer_patentes_com_detalhes(patentes, driver, max_detalhes)
enriquecer_patentes_com_detalhes(ps, max, pages) ==
    LET todo == ParaProcessar(ps, max)
    IN  [i \in 1..Len(todo) |-> obter_detalhes_completos(todo[i], pages[i])]

\* main: "Remove duplicatas"; an empty list ends the run
RemoveDuplicatas ==
    /\ dpc = "start"
    /\ patents_list' = DictValues(UniquePatents(all_patents, <<>>))
    /\ dpc' = IF patents_list' = <<>> THEN "nothing" ELSE "unique"
    /\ UNCHANGED <<all_patents, patents_agrupadas, detalhes_opts>>

\* main: `if extrair_detalhes and len(patents_list) > 0`: patents_list =
\* enriquecer_patentes_com_detalhes(patents_list, driver, max_detalhes), the
\* list kept as it was when the call raises
EnriquecerPatentes ==
    /\ dpc = "unique"
    /\ detalhes_opts.extrair
    /\ patents_list' =
          IF detalhes_opts.pages = "raises" THEN patents_list
          ELSE enriquecer_patentes_com_detalhes(
                  patents_list, detalhes_opts.max,
                  [i \in 1..Len(patents_list) |-> detalhes_opts.pages = "read"])
    /\ dpc' = "enriched"
    /\ UNCHANGED <<all_patents, patents_agrupadas, detalhes_opts>>

\* main: patents_agrupadas = agrupar_por_publication_number(patents_list)
SalvaAgrupadas ==
    /\ \/ dpc = "unique" /\ ~detalhes_opts.extrair
       \/ dpc = "enriched"
    /\ patents_agrupadas' = agrupar_por_publication_number(patents_list)
    /\ dpc' = "saved"
    /\ UNCHANGED <<all_patents, patents_list, detalhes_opts>>

\* agrupar_por_publication_number called on a list as collected
Agrupar ==
    /\ dpc = "start"
    /\ patents_agrupadas' = agrupar_por_publication_number(all_patents)
    /\ dpc' = "grouped"
    /\ UNCHANGED <<all_patents, patents_list, detalhes_opts>>

DedupeIdle ==
    /\ all_patents = <<>>
    /\ patents_list = <<>>
    /\ patents_agrupadas = <<>>
    /\ detalhes_opts = [extrair |-> FALSE, max |-> <<>>, pages |-> "none"]
    /\ dpc = "idle"

DedupeInit ==
    /\ \E n \in 0..MaxPatents : all_patents \in [1..n -> PatentRecords]
    /\ patents_list = <<>>
    /\ patents_agrupadas = <<>>
    /\ detalhes_opts \in DetalhesOpts
    /\ dpc = "start"

----------------------------------------------------------------------------
(* Result parsing: app/parser.py parse_search_results, reached through
   search_by_molecule and the /search endpoint of app/main.py *)

MaxElems == 2          \* a result item holds 0..MaxElems elements

\* Element kinds of a result item: <tag class="class">, the link being
\* <a href="detail.jsf?docId=D1">.  A class is a single name.
ElementKinds == {
    [tag |-> "a",    class |-> "",                   docId |-> <<"D1">>],
    [tag |-> "span", class |-> "publication-number", docId |-> <<>>],
    [tag |-> "span", class |-> "title",              docId |-> <<>>],
    [tag |-> "h3",   class |-> "",                   docId |-> <<>>],
    [tag |-> "div",  class |-> "applicant",          docId |-> <<>>],
    [tag |-> "span", class |-> "applicant-name",     docId |-> <<>>],
    [tag |-> "div",  class |-> "inventor",           docId |-> <<>>],
    [tag |-> "span", class |-> "ipc",                docId |-> <<>>],
    [tag |-> "span", class |-> "pub-date",           docId |-> <<>>] }

\* A text is a sequence of chunks: " " is white space as str.strip() sees it
\* (a blank, a line break, &nbsp;), any other chunk is a run of non-blank
\* characters.  <<>> as an element's text: no text node.
Texts == { <<>>, <<" ">>, <<"WO1">>, <<" ", "x">> }

Elements ==
    { [tag |-> k.tag, class |-> k.class, docId |-> k.docId, text |-> t] :
        k \in ElementKinds, t \in Texts }

Items == UNION { [1..n -> Elements] : n \in 0..MaxElems }

\* <<class, s>> : the class name contains s (the [class*="s"] selectors)
ClassContains == {
    <<"publication-number", "number">>, <<"title", "title">>,
    <<"applicant", "applicant">>, <<"applicant-name", "applicant">>,
    <<"inventor", "inventor">>, <<"ipc", "ipc">>, <<"pub-date", "date">>,
    <<"total-results", "total">>, <<"result-count", "count">> }

\* CSS selectors: .c   tag   tag.c   tag[class*="s"]   a[href*="docId"]
ByClass(c)     == [tag |-> "", token |-> c, sub |-> "", docid |-> FALSE]
ByTag(t)       == [tag |-> t, token |-> "", sub |-> "", docid |-> FALSE]
TagClass(t, c) == [tag |-> t, token |-> c, sub |-> "", docid |-> FALSE]
TagSub(t, u)   == [tag |-> t, token |-> "", sub |-> u, docid |-> FALSE]
LinkDocId      == [tag |-> "a", token |-> "", sub |-> "", docid |-> TRUE]

Matches(e, sel) ==
    /\ sel.tag = "" \/ e.tag = sel.tag
    /\ sel.token = "" \/ e.class = sel.token
    /\ sel.sub = "" \/ <<e.class, sel.sub>> \in ClassContains
    /\ sel.docid => e.docId # <<>>

pub_selectors ==
    << ByClass("publication-number"), ByClass("pub-number"), LinkDocId,
       ByClass("docId"), TagClass("td", "number"), TagSub("span", "number") >>
title_selectors ==
    << ByClass("title"), ByTag("h3"), ByClass("patent-title"), LinkDocId,
       TagClass("td", "title"), TagSub("div", "title") >>
abstract_selectors ==
    << ByClass("abstract"), ByClass("summary"), TagSub("div", "abstract"),
       TagClass("td", "abstract") >>
applicant_selectors ==
    << ByClass("applicant"), ByClass("applicant-name"), TagSub("div", "applicant"),
       TagClass("td", "applicant") >>
inventor_selectors ==
    << ByClass("inventor"), ByClass("inventor-name"), TagSub("div", "inventor") >>
date_selectors ==
    << ByClass("publication-date"), ByClass("pub-date"), TagClass("td", "date"),
       TagSub("span", "date") >>
ipc_selectors ==
    << ByClass("ipc-code"), ByClass("ipc"), TagSub("span", "ipc") >>
\* item.css('sel::text').getall(): the text nodes of the matching elements,
\* in document order
GetAll(item, sel) ==
    LET hit(e) == Matches(e, sel) /\ e.text # <<>>
        m == SelectSeq(item, hit)
    IN  [i \in 1..Len(m) |-> m[i].text]

\* .get(): the first of them, or None (here <<>>; a value v is <<v>>)
Get(list) == IF list = <<>> THEN <<>> ELSE <<Head(list)>>

\* for sel in selectors: x = item.css(sel).get(); if x: break
RECURSIVE FirstGet(_, _)
FirstGet(item, selectors) ==
    IF selectors = <<>> THEN <<>>
    ELSE LET x == Get(GetAll(item, Head(selectors)))
         IN  IF x # <<>> THEN x ELSE FirstGet(item, Tail(selectors))

\* for sel in selectors: parts = item.css(sel).getall(); acc.extend(parts)
RECURSIVE ExtendAll(_, _)
ExtendAll(item, selectors) ==
    IF selectors = <<>> THEN <<>>
    ELSE GetAll(item, Head(selectors)) \o ExtendAll(item, Tail(selectors))

\* str.strip()
RECURSIVE LStrip(_)
LStrip(t) == IF t # <<>> /\ Head(t) = " " THEN LStrip(Tail(t)) ELSE t
RECURSIVE RStrip(_)
RStrip(t) ==
    IF t # <<>> /\ t[Len(t)] = " " THEN RStrip(SubSeq(t, 1, Len(t) - 1)) ELSE t
Strip(t) == RStrip(LStrip(t))

\* [a.strip() for a in values if a.strip()]
StripNonEmpty(values) ==
    LET stripped == [i \in 1..Len(values) |-> Strip(values[i])]
        nonempty(t) == t # <<>>
    IN  SelectSeq(stripped, nonempty)

\* ' '.join(parts)
RECURSIVE JoinSpace(_)
JoinSpace(parts) ==
    IF parts = <<>> THEN <<>>
    ELSE IF Len(parts) = 1 THEN Head(parts)
    ELSE Head(parts) \o <<" ">> \o JoinSpace(Tail(parts))

\* .//text()[contains(., "WO") or contains(., "US") or contains(., "EP")]
OfficeChunks == {"WO1"}
XPathOffice(item) ==
    LET hit(e) == \E i \in 1..Len(e.text) : e.text[i] \in OfficeChunks
        m == SelectSeq(item, hit)
    IN  IF m = <<>> THEN <<>> ELSE <<m[1].text>>

\* bool(result.get(key)): the key is there and its string is not ''
Truthy(opt) == opt # <<>> /\ opt[1] # <<>>

\* The loop body of parse_search_results for one item; a key that the code
\* leaves out of the dict is <<>> here, a key with value v is <<v>>
ParseItem(item) ==
    LET pub_css    == FirstGet(item, pub_selectors)
        pub_number == IF pub_css # <<>> THEN pub_css ELSE XPathOffice(item)
        publication_number ==
            IF pub_number # <<>> THEN <<Strip(pub_number[1])>> ELSE <<>>
        links      == SelectSeq(item, LAMBDA e : Matches(e, LinkDocId))
        doc_id     == IF links = <<>> THEN <<>> ELSE <<links[1].docId>>
        title      == FirstGet(item, title_selectors)
        abstract_parts == ExtendAll(item, abstract_selectors)
        pub_date   == FirstGet(item, date_selectors)
    IN  [ publication_number |-> publication_number,
          patent_id  |-> IF doc_id # <<>> THEN doc_id ELSE publication_number,
          title      |-> IF title # <<>> THEN <<Strip(title[1])>> ELSE <<>>,
          abstract   |-> IF abstract_parts # <<>>
                         THEN <<Strip(JoinSpace(abstract_parts))>> ELSE <<>>,
          applicants |-> StripNonEmpty(ExtendAll(item, applicant_selectors)),
          inventors  |-> StripNonEmpty(ExtendAll(item, inventor_selectors)),
          publication_date |-> IF pub_date # <<>> THEN <<Strip(pub_date[1])>> ELSE <<>>,
          ipc_codes  |-> StripNonEmpty(ExtendAll(item, ipc_selectors)) ]

\* a test that lets every record through
HasMinimumDataMut(result) == TRUE
\* if result.get('patent_id') or result.get('publication_number'): append
HasMinimumData(result) == Truthy(result.patent_id) \/ Truthy(result.publication_number)

\* `for item in items:` of parse_search_results: every item is parsed, the
\* records with minimum data are appended in the order of the items
ParseItems(items) ==
    LET parsed == [i \in 1..Len(items) |-> ParseItem(items[i])]
    IN  SelectSeq(parsed, HasMinimumData)

\* parse_search_results on a page whose result selector finds the one item
parse_search_results(item) == ParseItems(<<item>>)

\* r.get(key, default)
GetOr(opt, default) == IF opt # <<>> THEN opt[1] ELSE default

\* PatentScopeScraper.BASE_URL of app/scraper.py
ScraperBaseUrl == "https://patentscope.wipo.int"

\* search_by_molecule adds the url to a parsed record:
\* f"{self.BASE_URL}/search/en/detail.jsf?docId={result['patent_id']}" when
\* the record has a patent_id, self.BASE_URL otherwise
ResultUrl(r) ==
    IF r.patent_id # <<>>
    THEN <<ScraperBaseUrl, "/search/en/detail.jsf?docId=">> \o r.patent_id[1]
    ELSE <<ScraperBaseUrl>>

\* The PatentResult that the endpoint builds of a record; abstract,
\* publication_date and relevance_score are optional (<<>> is None)
PatentResult(r) ==
    [ patent_id          |-> GetOr(r.patent_id, <<>>),
      publication_number |-> GetOr(r.publication_number, <<>>),
      title              |-> GetOr(r.title, <<"No title">>),
      abstract           |-> r.abstract,
      applicants         |-> r.applicants,
      inventors          |-> r.inventors,
      publication_date   |-> r.publication_date,
      ipc_codes          |-> r.ipc_codes,
      url                |-> ResultUrl(r),
      relevance_score    |-> <<>> ]

\* PatentScopeParser.parse_search_results(html)
ParseSearchResults ==
    /\ ppc = "start"
    /\ results' = parse_search_results(html)
    /\ ppc' = "parsed"
    /\ UNCHANGED <<html, patent_results>>

\* POST /search with a page fetched successfully
SearchEndpoint ==
    /\ ppc = "start"
    /\ results' = parse_search_results(html)
    /\ patent_results' = [i \in 1..Len(results') |-> PatentResult(results'[i])]
    /\ ppc' = "answered"
    /\ UNCHANGED html

ParseIdle ==
    /\ html = <<>>
    /\ results = <<>>
    /\ patent_results = <<>>
    /\ ppc = "idle"

ParseInit ==
    /\ html \in Items
    /\ results = <<>>
    /\ patent_results = <<>>
    /\ ppc = "start"

----------------------------------------------------------------------------
(* A result page of several items handled by parse_search_results *)

MaxItems == 2          \* a result page holds 0..MaxItems result items

\* The items of such a page: a row with at most one element
SmallItems == { item \in Items : Len(item) <= 1 }

ResultPages == UNION { [1..n -> SmallItems] : n \in 0..MaxItems }

\* PatentScopeParser.parse_search_results(html) on a page of several items
ParsePage ==
    /\ gpc = "start"
    /\ page_results' = ParseItems(result_page)
    /\ gpc' = "parsed"
    /\ UNCHANGED result_page

PageIdle ==
    /\ result_page = <<>>
    /\ page_results = <<>>
    /\ gpc = "idle"

PageInit ==
    /\ result_page \in ResultPages
    /\ page_results = <<>>
    /\ gpc = "start"

----------------------------------------------------------------------------
(* The total count: app/parser.py extract_total_results *)

MaxTextLen == 3        \* a text of the count page holds up to MaxTextLen chunks

\* The chunks of a text: digits, the thousands separator, and words, some of
\* which are key words of the generic look-up
AllDigits == <<"0", "1", "2", "3", "4", "5", "6", "7", "8", "9">>
DigitValue(c) == (CHOOSE i \in 1..Len(AllDigits) : AllDigits[i] = c) - 1
DigitChunks == { AllDigits[i] : i \in 1..Len(AllDigits) }
KeywordChunks == {"total", "results", "found", "resultados"}
\* The chunks that the texts of the count pages are made of
CountChunks == {"2", "3", ",", "total"}

CountTexts == UNION { [1..n -> CountChunks] : n \in 1..MaxTextLen }

\* The elements that may carry the count: <span class="total-results"> and
\* <div class="result-count">; no element of a page carries an id
CountKinds == {
    [tag |-> "span", class |-> "total-results", docId |-> <<>>],
    [tag |-> "div",  class |-> "result-count",  docId |-> <<>>] }
PlainKind == [tag |-> "p", class |-> "", docId |-> <<>>]

\* #id : matches no element here
ById(i) == TagClass("#", i)

total_selectors ==
    << ByClass("total-results"), ByClass("result-count"), ById("totalResults"),
       ByClass("results-info"), TagSub("span", "total"), TagSub("div", "count") >>

\* int(n.replace(',', '')) of a match of \d[\d,]* : the digits, commas dropped
RECURSIVE IntOf(_, _)
IntOf(token, acc) ==
    IF token = <<>> THEN acc
    ELSE IF Head(token) = "," THEN IntOf(Tail(token), acc)
    ELSE IntOf(Tail(token), 10 * acc + DigitValue(Head(token)))

\* re.findall(r'\d[\d,]*', text): the maximal runs of digits and commas that
\* start with a digit; cur is the run being read
RECURSIVE FindNumbers(_, _)
FindNumbers(text, cur) ==
    IF text = <<>> THEN (IF cur = <<>> THEN <<>> ELSE <<cur>>)
    ELSE LET c == Head(text)
         IN  IF c \in DigitChunks \/ (c = "," /\ cur # <<>>)
             THEN FindNumbers(Tail(text), Append(cur, c))
             ELSE (IF cur = <<>> THEN <<>> ELSE <<cur>>) \o FindNumbers(Tail(text), <<>>)

\* max(int(n.replace(',', '')) for n in numbers), numbers not empty
RECURSIVE MaxInt(_)
MaxInt(numbers) ==
    IF Len(numbers) = 1 THEN IntOf(numbers[1], 0)
    ELSE Max(IntOf(Head(numbers), 0), MaxInt(Tail(numbers)))

\* The text-bearing elements of the page, in document order
CountElements(page) == page.counted \o page.plain

\* for sel in total_selectors: text = get(); if text: numbers = ...; if
\* numbers: return max(...).  <<>> when the loop ends without a return
RECURSIVE CountCascade(_, _)
CountCascade(elems, selectors) ==
    IF selectors = <<>> THEN <<>>
    ELSE LET text == Get(GetAll(elems, Head(selectors)))
             numbers == IF text = <<>> THEN <<>> ELSE FindNumbers(text[1], <<>>)
         IN  IF numbers # <<>> THEN <<MaxInt(numbers)>>
             ELSE CountCascade(elems, Tail(selectors))

\* for text in //text(): if a key word is in it: numbers = ...; if numbers:
\* return max(...)
RECURSIVE CountGeneric(_)
CountGeneric(elems) ==
    IF elems = <<>> THEN <<>>
    ELSE LET text == Head(elems).text
             keyword == \E i \in 1..Len(text) : text[i] \in KeywordChunks
             numbers == FindNumbers(text, <<>>)
         IN  IF keyword /\ numbers # <<>> THEN <<MaxInt(numbers)>>
             ELSE CountGeneric(Tail(elems))

extract_total_results(page) ==
    LET elems == CountElements(page)
        found == CountCascade(elems, total_selectors)
        generic == CountGeneric(elems)
    IN  IF found # <<>> THEN found[1]
        ELSE IF generic # <<>> THEN generic[1]
        ELSE 0

\* PatentScopeParser.extract_total_results(html)
ExtractTotalResults ==
    /\ tpc = "start"
    /\ total_results' = extract_total_results(count_page)
    /\ tpc' = "done"
    /\ UNCHANGED count_page

\* A page with at most one element that a count selector matches, followed
\* by at most one other text
CountPages ==
    [ counted : {<<>>} \cup { <<[tag |-> k.tag, class |-> k.class,
                                 docId |-> k.docId, text |-> t]>> :
                               k \in CountKinds, t \in CountTexts },
      plain   : {<<>>} \cup { <<[tag |-> PlainKind.tag, class |-> PlainKind.class,
                                 docId |-> PlainKind.docId, text |-> t]>> :
                               t \in CountTexts } ]

CountIdle ==
    /\ count_page = [counted |-> <<>>, plain |-> <<>>]
    /\ total_results = 0
    /\ tpc = "idle"

CountInit ==
    /\ count_page \in CountPages
    /\ total_results = 0
    /\ tpc = "start"

----------------------------------------------------------------------------
(* Query building: app/scraper.py _build_molecule_query and
   patentscope_scraper.py construir_query *)

MaxMoleculeLen == 3    \* the input holds 0..MaxMoleculeLen characters

\* '0123456789CHONPS()[]+-='
FormulaAlphabet ==
    {"0", "1", "2", "3", "4", "5", "6", "7", "8", "9", "C", "H", "O", "N",
     "P", "S", "(", ")", "[", "]", "+", "-", "="}
\* ['@', '/', '\\']
SmilesMarks == {"@", "/", "\\"}

\* The characters the inputs are made of
MoleculeChars == {"C", "6", "=", " ", "@", "g"}
Molecules == UNION { [1..n -> MoleculeChars] : n \in 0..MaxMoleculeLen }

\* a version that keeps the blanks
WithoutSpacesMut(t) == t
\* molecule.replace(' ', '')
WithoutSpaces(t) == SelectSeq(t, LAMBDA c : c # " ")

\* a version that leaves the quotes out
QuotedMut(t) == t
\* f'"{molecule}"'
Quoted(t) == <<"\"">> \o t \o <<"\"">>

\* The if / elif / else of _build_molecule_query, on the stripped input
ClassOf(m) ==
    IF \A i \in 1..Len(WithoutSpaces(m)) : WithoutSpaces(m)[i] \in FormulaAlphabet
    THEN "Formula"
    ELSE IF \E i \in 1..Len(m) : m[i] \in SmilesMarks
    THEN "Smiles"
    ELSE "Name"

\* _build_molecule_query(molecule): f"{query_field}:({query})"
build_molecule_query(input) ==
    LET m == Strip(input)
        query_field == IF ClassOf(m) = "Name" THEN "EN_ALL" ELSE "EN_AB"
        q == IF ClassOf(m) = "Name" THEN m ELSE Quoted(m)
    IN  <<query_field, ":", "(">> \o q \o <<")">>

\* PatentScopeConfig.SEARCH_FIELDS
SEARCH_FIELDS ==
    [ all         |-> "FP",
      title       |-> "TI",
      abstract    |-> "AB",
      claims      |-> "CL",
      description |-> "DE",
      inventor    |-> "IN",
      applicant   |-> "PA",
      ipc         |-> "IC",
      cpc         |-> "CP",
      priority    |-> "PR",
      publication |-> "PN",
      application |-> "AN" ]

\* self.config.SEARCH_FIELDS.get(campo, 'FP')
FieldCode(c) == IF c \in DOMAIN SEARCH_FIELDS THEN SEARCH_FIELDS[c] ELSE "FP"

\* construir_query(termo_busca, campo, pais, data_inicio, data_fim)
construir_query(termo, c, p, di, df) ==
    LET basic == IF c = "all" \/ FieldCode(c) = "FP" THEN termo
                 ELSE <<FieldCode(c), ":", "(">> \o termo \o <<")">>
        country == IF p # <<>> THEN <<" AND PC:">> \o p ELSE <<>>
        dates == IF di # <<>>
                 THEN <<" AND PD:[">> \o di \o <<" TO ">>
                      \o (IF df # <<>> THEN df \o <<"]">> ELSE <<"*]">>)
                 ELSE <<>>
    IN  basic \o country \o dates

\* The campo arguments: every key of SEARCH_FIELDS, and two strings that are
\* no key of it
Campos == DOMAIN SEARCH_FIELDS \cup {"unknown", ""}
Paises == {<<>>, <<"BR">>}
Datas  == {<<>>, <<"2020-01-01">>}

\* PatentScopeScraper._build_molecule_query(molecule)
BuildMoleculeQuery ==
    /\ qpc = "start"
    /\ query_class' = ClassOf(Strip(molecule))
    /\ query' = build_molecule_query(molecule)
    /\ qpc' = "molecule"
    /\ UNCHANGED <<molecule, campo, pais, data_inicio, data_fim>>

\* PatentScopeScraper.construir_query(termo_busca, ...)
ConstruirQuery ==
    /\ qpc = "start"
    /\ \E c \in Campos, p \in Paises, di \in Datas, df \in Datas :
          /\ campo' = c
          /\ pais' = p
          /\ data_inicio' = di
          /\ data_fim' = df
          /\ query' = construir_query(molecule, c, p, di, df)
    /\ qpc' = "construir"
    /\ UNCHANGED <<molecule, query_class>>

QueryIdle ==
    /\ molecule = <<>>
    /\ campo = "all"
    /\ pais = <<>>
    /\ data_inicio = <<>>
    /\ data_fim = <<>>
    /\ query_class = "none"
    /\ query = <<>>
    /\ qpc = "idle"

QueryInit ==
    /\ molecule \in Molecules
    /\ campo = "all"
    /\ pais = <<>>
    /\ data_inicio = <<>>
    /\ data_fim = <<>>
    /\ query_class = "none"
    /\ query = <<>>
    /\ qpc = "start"

----------------------------------------------------------------------------
(* One search: app/scraper.py search_by_molecule and the POST /search
   endpoint of app/main.py *)

MaxPage      == 3      \* page ranges over 1..MaxPage
MaxPageSize  == 10     \* page_size ranges over 1..MaxPageSize
MaxShown     == 23     \* the count that the portal shows ranges over 0..MaxShown
MaxPageRecords == 2    \* parse_search_results returns 0..MaxPageRecords records

\* str(n) for n >= 0
RECURSIVE Decimal(_)
Decimal(n) ==
    IF n < 10 THEN <<AllDigits[n + 1]>>
    ELSE Decimal(n \div 10) \o <<AllDigits[(n % 10) + 1]>>

\* The count page of a result page: "<n> results" in the counted element
\* when the portal shows a count n (shown = <<n>>), no text at all otherwise
ShownPage(shown) ==
    [ counted |-> IF shown = <<>> THEN <<>>
                  ELSE <<[tag |-> "span", class |-> "total-results", docId |-> <<>>,
                          text |-> Decimal(shown[1]) \o <<"results">>]>>,
      plain   |-> <<>> ]

\* What the portal does with the request: the fetch fails, the page makes
\* the parser raise, or the page is fetched and parsed
PortalBehaviours ==
    [ outcome : {"fetch_fails", "parse_raises", "ok"},
      shown   : {<<>>} \cup { <<n>> : n \in 0..MaxShown },
      records : 0..MaxPageRecords ]

None == <<>>

\* -(-a // b) without negatives: (a + b - 1) // b
CeilDivMut(a, b) == a \div b
CeilDiv(a, b) == (a + b - 1) \div b

\* The try block of search_by_molecule for a page fetched and parsed
SearchSuccess(pg, size, shown, records) ==
    LET extracted == extract_total_results(ShownPage(shown))
        total == IF extracted = 0 /\ records > 0 THEN records ELSE extracted
        total_pages == Max(1, CeilDiv(total, size))
    IN  [ status |-> "success", results |-> records, total_results |-> total,
          page |-> pg, page_size |-> size, total_pages |-> total_pages,
          has_next |-> pg < total_pages, has_previous |-> pg > 1,
          next_page |-> IF pg < total_pages THEN <<pg + 1>> ELSE None,
          previous_page |-> IF pg > 1 THEN <<pg - 1>> ELSE None,
          error |-> None ]

\* The except block of search_by_molecule
SearchError(pg, size, e) ==
    [ status |-> "error", results |-> 0, total_results |-> 0,
      page |-> pg, page_size |-> size, total_pages |-> 0,
      has_next |-> FALSE, has_previous |-> FALSE,
      next_page |-> None, previous_page |-> None, error |-> <<e>> ]

search_by_molecule(pg, size, b) ==
    IF b.outcome = "ok" THEN SearchSuccess(pg, size, b.shown, b.records)
    ELSE SearchError(pg, size, b.outcome)

\* ErrorResponse(error=..., message=...).dict(): the timestamp field, filled
\* by default_factory=datetime.utcnow, is a datetime object in the dict
ErrorResponse(error, message) ==
    [ status |-> "error", error |-> error, message |-> message,
      timestamp |-> "datetime" ]

\* An exception that a handler raises instead of returning an answer
Raised(exc) ==
    [ http_status |-> None, status |-> "raised", error |-> exc,
      message |-> None, results |-> 0, pagination |-> None ]

\* JSONResponse(status_code, content): json.dumps(content) raises TypeError
\* for a content that holds a datetime object
JSONResponse(status_code, content) ==
    IF content.timestamp = "datetime" THEN Raised("TypeError")
    ELSE [ http_status |-> <<status_code>>, status |-> content.status,
           error |-> content.error, message |-> content.message,
           results |-> 0, pagination |-> None ]

\* general_exception_handler(request, exc), the handler of what the other
\* handlers and the endpoints raise; what it raises leaves the application
general_exception_handler(exc) ==
    JSONResponse(500, ErrorResponse("Internal Server Error", <<exc>>))

\* http_exception_handler(request, exc)
http_exception_handler(status_code, detail) ==
    LET r == JSONResponse(status_code, ErrorResponse("HTTP 500", detail))
    IN  IF r.status = "raised" THEN general_exception_handler(r.error) ELSE r

\* search_molecule: HTTPException(500) for an error result, handled by
\* http_exception_handler; else the SearchResponse with its PaginationInfo
search_molecule(result) ==
    IF result.status = "error"
    THEN http_exception_handler(500, result.error)
    ELSE [ http_status |-> <<200>>, status |-> "success", error |-> "",
           message |-> None, results |-> result.results,
           pagination |-> << [ current_page |-> result.page,
                               page_size |-> result.page_size,
                               total_results |-> result.total_results,
                               total_pages |-> result.total_pages,
                               has_next |-> result.has_next,
                               has_previous |-> result.has_previous,
                               next_page |-> result.next_page,
                               previous_page |-> result.previous_page ] >> ]

\* PatentScopeScraper.search_by_molecule(molecule, search_type, page, page_size)
SearchByMolecule ==
    /\ spc = "start"
    /\ search_result' = search_by_molecule(req_page, req_page_size, portal)
    /\ spc' = "searched"
    /\ UNCHANGED <<req_page, req_page_size, portal, response>>

\* POST /search
SearchMolecule ==
    /\ spc = "start"
    /\ search_result' = search_by_molecule(req_page, req_page_size, portal)
    /\ response' = search_molecule(search_result')
    /\ spc' = "answered"
    /\ UNCHANGED <<req_page, req_page_size, portal>>

SearchIdle ==
    /\ req_page = 0
    /\ req_page_size = 0
    /\ portal = [outcome |-> "none", shown |-> <<>>, records |-> 0]
    /\ search_result = None
    /\ response = None
    /\ spc = "idle"

\* MoleculeSearchRequest: page >= 1, page_size >= 1
SearchInit ==
    /\ req_page \in 1..MaxPage
    /\ req_page_size \in 1..MaxPageSize
    /\ portal \in PortalBehaviours
    /\ search_result = None
    /\ response = None
    /\ spc = "start"

----------------------------------------------------------------------------------------------------------------------------------------
(* Search sessions: scrapers that run side by side, one thread each, every
   scraper with its limiter; time passes for all the threads together *)

\* Bounds of the model
MaxSessions == 2    \* scrapers alive at the same time
MaxCalls    == 2    \* requests of all the scrapers through _make_request, retries included
MaxPageLoads == 3   \* pages that the drivers of all the scrapers load

Sessions == 1..MaxSessions

\* a limiter kept in one place for every scraper
AllocateMut(h) == 1
\* `RateLimiter(min_delay, max_delay)`: the call builds a new object
Allocate(h) == Len(h) + 1

\* The objects after `self.rate_limiter = RateLimiter(...)` stored object ref
Store(h, ref, obj) ==
    IF ref > Len(h) THEN Append(h, obj) ELSE [h EXCEPT ![ref] = obj]

\* A scraper not built yet; `sleeping` is the time left of the time.sleep
\* that its thread is in, in ticks, `pages` is pagina_atual, a local of
\* _buscar_com_selenium that is 0 outside a search, and `attempt` is
\* tenacity's attempt number of the _make_request call in progress, 0
\* outside a call
NoScraper == [rate_limiter |-> 0, pc |-> "none", pages |-> 0, calls |-> 0,
              loads |-> 0, sleeping |-> 0, attempt |-> 0]

\* One request as the portal receives it: who sent it, what for, whether
\* the sender's wait() came before it and what it reported afterwards
Request(s, kind, waited, reported) ==
    [session |-> s, kind |-> kind, waited |-> waited, reported |-> reported]

Call(s, op) == [session |-> s, op |-> op]

\* The requests made so far by all the scrapers through _make_request, and
\* the pages that their drivers have loaded
RECURSIVE CallsUpTo(_)
CallsUpTo(n) == IF n = 0 THEN 0 ELSE scrapers[n].calls + CallsUpTo(n - 1)
TotalCalls == CallsUpTo(MaxSessions)
RECURSIVE LoadsUpTo(_)
LoadsUpTo(n) == IF n = 0 THEN 0 ELSE scrapers[n].loads + LoadsUpTo(n - 1)
TotalLoads == LoadsUpTo(MaxSessions)

\* self.rate_limiter of scraper s
Limiter(s) == heap[scrapers[s].rate_limiter]

\* The thread of scraper s is not inside a time.sleep
Awake(s) == scrapers[s].sleeping = 0

\* time.sleep(6) after driver.get(search_url)
SearchPageSleep == 6
\* WebDriverWait(self.driver, 10): the seconds after which a wait for an
\* element times out
SelectorTimeout == 10
\* len(search_selectors)
SearchSelectors == 9
\* time.sleep(0.5) before search_input.click(), in tenths of a second
FieldSleepTenths == 5
\* The sleeps from there to the submit: 0.3 and 1 second while the query is
\* typed, and 0.3 more before search_button.click() when there is a button
TypingSleepTenths == 13
ButtonSleepTenths == 3
\* time.sleep(5) after the submit
SubmitSleep == 5
\* time.sleep(2) before the first page is read
RenderSleep == 2
\* time.sleep(5) after next_button.click()
NextPageSleep == 5

Seconds(n) == n * TicksPerSecond
Tenths(n) == (n * TicksPerSecond) \div 10

\* PatentScopeScraper.__init__; the scrapers are numbered in the order in
\* which they are built
NewScraper ==
    \E s \in Sessions :
        /\ scrapers[s].pc = "none"
        /\ \A t \in 1..(s - 1) : scrapers[t].pc # "none"
        /\ LET ref == Allocate(heap)
           IN  /\ heap' = Store(heap, ref, RateLimiterInit(0, 0))
               /\ scrapers' = [scrapers EXCEPT ![s] =
                                 [NoScraper EXCEPT !.rate_limiter = ref,
                                                   !.pc = "ready"]]
        /\ last_call' = Call(s, "init")
        /\ UNCHANGED portal_log

\* _buscar_com_selenium: driver.get(search_url), then time.sleep(6)
OpenSearchPage ==
    \E s \in Sessions :
        /\ scrapers[s].pc = "ready"
        /\ Awake(s)
        /\ TotalLoads < MaxPageLoads
        /\ portal_log' = portal_log \cup {Request(s, "search_page", FALSE, "none")}
        /\ scrapers' = [scrapers EXCEPT ![s].pc = "opened", ![s].pages = 0,
                                        ![s].loads = @ + 1,
                                        ![s].sleeping = Seconds(SearchPageSleep)]
        /\ last_call' = Call(s, "search_page")
        /\ UNCHANGED heap

\* _buscar_com_selenium: no selector finds the search field, each
\* WebDriverWait raising at once or each timing out
WaitForSearchField ==
    \E s \in Sessions, timed_out \in BOOLEAN :
        /\ scrapers[s].pc = "opened"
        /\ Awake(s)
        /\ scrapers' = [scrapers EXCEPT
                          ![s].pc = "no_field",
                          ![s].sleeping = IF timed_out
                                          THEN Seconds(SearchSelectors * SelectorTimeout)
                                          ELSE 0]
        /\ last_call' = Call(s, "selectors")
        /\ UNCHANGED <<heap, portal_log>>

\* _buscar_com_selenium: `if not search_input:` ... return []
NoSearchField ==
    \E s \in Sessions :
        /\ scrapers[s].pc = "no_field"
        /\ Awake(s)
        /\ scrapers' = [scrapers EXCEPT ![s].pc = "ready", ![s].pages = 0]
        /\ last_call' = Call(s, "no_field")
        /\ UNCHANGED <<heap, portal_log>>

\* _buscar_com_selenium: the first selector finds the search field at once:
\* time.sleep(0.5), after which the field raises (return []) or takes the
\* query
FindSearchField ==
    \E s \in Sessions :
        /\ scrapers[s].pc = "opened"
        /\ Awake(s)
        /\ scrapers' = [scrapers EXCEPT ![s].pc = "field",
                                        ![s].sleeping = Tenths(FieldSleepTenths)]
        /\ last_call' = Call(s, "field")
        /\ UNCHANGED <<heap, portal_log>>

\* _buscar_com_selenium: search_input.click() raises: return []
FieldRaises ==
    \E s \in Sessions :
        /\ scrapers[s].pc = "field"
        /\ Awake(s)
        /\ scrapers' = [scrapers EXCEPT ![s].pc = "ready", ![s].pages = 0]
        /\ last_call' = Call(s, "field_raises")
        /\ UNCHANGED <<heap, portal_log>>

\* _buscar_com_selenium: the query is typed (time.sleep 0.3 and 1) and, when
\* the page has a search button, time.sleep(0.3) comes before its click
TypeQuery ==
    \E s \in Sessions, button \in BOOLEAN :
        /\ scrapers[s].pc = "field"
        /\ Awake(s)
        /\ scrapers' = [scrapers EXCEPT
                          ![s].pc = "typed",
                          ![s].sleeping = Tenths(TypingSleepTenths)
                                          + (IF button THEN Tenths(ButtonSleepTenths) ELSE 0)]
        /\ last_call' = Call(s, "type")
        /\ UNCHANGED <<heap, portal_log>>

\* _buscar_com_selenium: search_button.click() or Keys.RETURN, then
\* time.sleep(5)
SubmitSearch ==
    \E s \in Sessions :
        /\ scrapers[s].pc = "typed"
        /\ Awake(s)
        /\ TotalLoads < MaxPageLoads
        /\ portal_log' = portal_log \cup {Request(s, "first_page", FALSE, "none")}
        /\ scrapers' = [scrapers EXCEPT ![s].pc = "submitted", ![s].loads = @ + 1,
                                        ![s].sleeping = Seconds(SubmitSleep)]
        /\ last_call' = Call(s, "first_page")
        /\ UNCHANGED heap

\* _buscar_com_selenium: the URL is not result.jsf: return []
NotAResultPage ==
    \E s \in Sessions :
        /\ scrapers[s].pc = "submitted"
        /\ Awake(s)
        /\ scrapers' = [scrapers EXCEPT ![s].pc = "ready", ![s].pages = 0]
        /\ last_call' = Call(s, "no_result_page")
        /\ UNCHANGED <<heap, portal_log>>

\* _buscar_com_selenium: WebDriverWait for the result table, which is there
\* at once or not at all
WaitForResultTable ==
    \E s \in Sessions, timed_out \in BOOLEAN :
        /\ scrapers[s].pc = "submitted"
        /\ Awake(s)
        /\ scrapers' = [scrapers EXCEPT
                          ![s].pc = IF timed_out THEN "unlisted" ELSE "listed",
                          ![s].sleeping = IF timed_out THEN Seconds(SelectorTimeout)
                                          ELSE 0]
        /\ last_call' = Call(s, "result_table")
        /\ UNCHANGED <<heap, portal_log>>

\* _buscar_com_selenium: no result table was found and the page says that
\* there are no results: return []
NoResults ==
    \E s \in Sessions :
        /\ scrapers[s].pc = "unlisted"
        /\ Awake(s)
        /\ scrapers' = [scrapers EXCEPT ![s].pc = "ready", ![s].pages = 0]
        /\ last_call' = Call(s, "no_results")
        /\ UNCHANGED <<heap, portal_log>>

\* _buscar_com_selenium: time.sleep(2) before the first page is read
RenderResults ==
    \E s \in Sessions :
        /\ scrapers[s].pc \in {"listed", "unlisted"}
        /\ Awake(s)
        /\ scrapers' = [scrapers EXCEPT ![s].pc = "rendering",
                                        ![s].sleeping = Seconds(RenderSleep)]
        /\ last_call' = Call(s, "render")
        /\ UNCHANGED <<heap, portal_log>>

\* _buscar_com_selenium: the first result page is read
FirstResultPage ==
    \E s \in Sessions :
        /\ scrapers[s].pc = "rendering"
        /\ Awake(s)
        /\ scrapers' = [scrapers EXCEPT ![s].pc = "crawling", ![s].pages = 1]
        /\ last_call' = Call(s, "read_page")
        /\ UNCHANGED <<heap, portal_log>>

\* _buscar_com_selenium: next_button.click() in the pagination loop, then
\* time.sleep(5)
NextPageClick ==
    \E s \in Sessions :
        /\ scrapers[s].pc = "crawling"
        /\ Awake(s)
        /\ scrapers[s].pages < max_paginas
        /\ TotalLoads < MaxPageLoads
        /\ portal_log' = portal_log \cup {Request(s, "next_page", FALSE, "none")}
        /\ scrapers' = [scrapers EXCEPT ![s].pc = "clicked", ![s].loads = @ + 1,
                                        ![s].sleeping = Seconds(NextPageSleep)]
        /\ last_call' = Call(s, "next_page")
        /\ UNCHANGED heap

\* _buscar_com_selenium: the page that the click brought is read; an empty
\* page ends the loop, any other page is counted
NextResultPage ==
    \E s \in Sessions, empty \in BOOLEAN :
        /\ scrapers[s].pc = "clicked"
        /\ Awake(s)
        /\ scrapers' = [scrapers EXCEPT
                          ![s].pc = IF empty THEN "ready" ELSE "crawling",
                          ![s].pages = IF empty THEN 0 ELSE @ + 1]
        /\ last_call' = Call(s, "read_page")
        /\ UNCHANGED <<heap, portal_log>>

\* _buscar_com_selenium: the loop ends (enough records, no Next button, the
\* page limit) and the search returns
SearchReturns ==
    \E s \in Sessions :
        /\ scrapers[s].pc = "crawling"
        /\ Awake(s)
        /\ scrapers' = [scrapers EXCEPT ![s].pc = "ready", ![s].pages = 0]
        /\ last_call' = Call(s, "return")
        /\ UNCHANGED <<heap, portal_log>>

\* obter_detalhes_patente -> _make_request -> RateLimiter.wait(), to its
\* time.sleep: current_time is read and the sleep, if any, begins.  The
\* attempt is the first of a new call, or the next one that tenacity makes
\* after its sleep.
DetailWait ==
    \E s \in Sessions :
        /\ scrapers[s].pc \in {"ready", "retrying"}
        /\ Awake(s)
        /\ TotalCalls < MaxCalls
        /\ scrapers' = [scrapers EXCEPT
                          ![s].pc = "waiting",
                          ![s].attempt = IF scrapers[s].pc = "ready" THEN 1 ELSE @,
                          ![s].sleeping = SleepFor(Limiter(s))]
        /\ last_call' = Call(s, "wait_begins")
        /\ UNCHANGED <<heap, portal_log>>

\* RateLimiter.wait(), after the sleep: self.last_request_time = time.time()
WaitEnds ==
    \E s \in Sessions :
        /\ scrapers[s].pc = "waiting"
        /\ Awake(s)
        /\ heap' = [heap EXCEPT ![scrapers[s].rate_limiter] = wait(@)]
        /\ scrapers' = [scrapers EXCEPT ![s].pc = "waited"]
        /\ last_call' = Call(s, "wait")
        /\ UNCHANGED portal_log

\* _make_request: the request and record_success() or record_error().  The
\* response is returned; a RequestException is raised to tenacity, which
\* sleeps wait_exponential and calls _make_request again, or, after
\* stop_after_attempt attempts, raises RetryError to obter_detalhes_patente,
\* which returns the error record.
DetailRequest ==
    \E s \in Sessions, ok \in BOOLEAN :
        /\ scrapers[s].pc = "waited"
        /\ portal_log' = portal_log \cup
              {Request(s, "detail", TRUE, IF ok THEN "success" ELSE "error")}
        /\ heap' = [heap EXCEPT ![scrapers[s].rate_limiter] =
                      IF ok THEN record_success(@) ELSE record_error(@)]
        /\ scrapers' =
              IF ~ok /\ scrapers[s].attempt < StopAfterAttempt
              THEN [scrapers EXCEPT
                      ![s].pc = "retrying",
                      ![s].calls = @ + 1,
                      ![s].sleeping = Seconds(TenacityWait(scrapers[s].attempt)),
                      ![s].attempt = @ + 1]
              ELSE [scrapers EXCEPT ![s].pc = "ready", ![s].calls = @ + 1,
                                    ![s].attempt = 0]
        /\ last_call' = Call(s, IF ok THEN "record_success" ELSE "record_error")

\* The threads that are inside a time.sleep
Sleepers == { s \in Sessions : scrapers[s].sleeping > 0 }

\* The time to the first return of a time.sleep; when no thread sleeps, a
\* time after which no wait() has to sleep
TimeStep ==
    IF Sleepers = {} THEN LongAgo
    ELSE LET s == CHOOSE t \in Sleepers :
                      \A u \in Sleepers : scrapers[t].sleeping <= scrapers[u].sleeping
         IN  scrapers[s].sleeping

\* Time passes, for every thread and every limiter: to the first return of
\* a time.sleep, or for a long time while that changes what a wait() reads
ClockRuns ==
    /\ \/ Sleepers # {}
       \/ \E i \in 1..Len(heap) : heap[i].since_last < LongAgo
    /\ scrapers' = [s \in Sessions |->
                      [scrapers[s] EXCEPT !.sleeping = Max(@ - TimeStep, 0)]]
    /\ heap' = [i \in 1..Len(heap) |->
                  [heap[i] EXCEPT !.since_last = Min(@ + TimeStep, LongAgo)]]
    /\ last_call' = Call(0, "clock")
    /\ UNCHANGED portal_log

\* The idle values of the session variables
SessionsIdle ==
    /\ heap = <<>>
    /\ scrapers = <<>>
    /\ portal_log = {}
    /\ last_call = Call(0, "none")

\* No scraper is built yet
SessionsInit ==
    /\ heap = <<>>
    /\ scrapers = [s \in Sessions |-> NoScraper]
    /\ portal_log = {}
    /\ last_call = Call(0, "none")

----------------------------------------------------------------------------
(* Row extraction of the Selenium scraper: _extrair_dados_patentes_selenium *)

MaxRows == 2           \* a result table holds 0..MaxRows result rows

\* PatentScopeConfig.BASE_URL
BASE_URL == "https://patentscope.wipo.int"

\* The length in characters of a chunk of text: a publication number such as
\* WO2020123456, a title of a few words, a name, a separator, a blank
CharsOf(c) ==
    CASE c \in {"WO1", "WO2"} -> 12
      [] c = "Title"          -> 25
      [] c \in {"A", "B"}     -> 8
      [] OTHER                -> 1

\* len(text)
RECURSIVE TextLen(_)
TextLen(t) == IF t = <<>> THEN 0 ELSE CharsOf(Head(t)) + TextLen(Tail(t))

\* element.get_text(strip=True) of an element with one text node
GetText(t) == Strip(t)

\* `pat in text`
Contains(text, pat) ==
    \E i \in 1..(Len(text) - Len(pat) + 1) : SubSeq(text, i, i + Len(pat) - 1) = pat

\* text.replace(pat, ''), for a non-empty pat
RECURSIVE Replace(_, _)
Replace(text, pat) ==
    IF Len(text) < Len(pat) THEN text
    ELSE IF SubSeq(text, 1, Len(pat)) = pat
         THEN Replace(SubSeq(text, Len(pat) + 1, Len(text)), pat)
         ELSE <<Head(text)>> \o Replace(Tail(text), pat)

\* text.split(';')
RECURSIVE Split(_)
Split(t) ==
    IF \A i \in 1..Len(t) : t[i] # ";" THEN <<t>>
    ELSE LET i == CHOOSE j \in 1..Len(t) :
                     t[j] = ";" /\ \A k \in 1..(j - 1) : t[k] # ";"
         IN  <<SubSeq(t, 1, i - 1)>> \o Split(SubSeq(t, i + 1, Len(t)))

\* text.isdigit()
IsDigit(t) == t # <<>> /\ \A i \in 1..Len(t) : t[i] \in DigitChunks

\* [app.strip() for app in applicants_text.split(';')]
SplitNames(t) == LET parts == Split(t) IN [i \in 1..Len(parts) |-> Strip(parts[i])]

\* A result row <tr>: its first <a href="...detail.jsf..."> (text and href),
\* its <span class="title">, its <td> cells and its <span class="applicant">;
\* an element that the row lacks is <<>>, one with text t is <<t>>
\* The href values of a detail link: relative to the page, relative to the
\* host, and absolute
RowHrefs ==
    { <<"detail.jsf?docId=D1">>,
      <<"/", "search/en/detail.jsf?docId=D1">>,
      <<"http", "s://patentscope.wipo.int/search/en/detail.jsf?docId=D1">>,
      <<"http", "://other.example/detail.jsf?docId=D1">> }
RowLinks      == { <<>> } \cup { <<[text |-> <<"WO1">>, href |-> h]>> : h \in RowHrefs }
RowTitleSpans == { <<>>, <<<<"Title">>>> }
FirstCells    == { <<"WO1">>, <<"WO2">> }
SecondCells   == { <<>>, <<<<"Title">>>>, <<<<"WO1", "Title">>>> }
RowApplicants == { <<>>, <<<<"A", ";", " ", "B", ";", " ">>>> }

ResultRows ==
    { [link |-> l, title_span |-> s, cells |-> <<c1>> \o c2, applicant |-> a] :
        l \in RowLinks, s \in RowTitleSpans, c1 \in FirstCells,
        c2 \in SecondCells, a \in RowApplicants }

ResultTables == UNION { [1..n -> ResultRows] : n \in 0..MaxRows }

\* href.startswith(prefix), for a prefix that is one chunk of text
StartsWith(text, prefix) == text # <<>> /\ Head(text) = prefix

\* detail_url from the href of the link: '' for an empty href, BASE_URL +
\* href for one that starts with '/', the href itself for one that starts
\* with 'http', and BASE_URL + '/search/en/' + href for any other
DetailUrl(href) ==
    IF href = <<>> THEN <<>>
    ELSE IF StartsWith(href, "/") THEN <<BASE_URL>> \o href
    ELSE IF StartsWith(href, "http") THEN href
    ELSE <<BASE_URL, "/search/en/">> \o href

\* The local variable pub_num of _extrair_dados_patentes_selenium: <<>> while
\* no row has assigned it, <<v>> afterwards
Unbound == <<>>

\* Estratégia 3: the second cell without the value of pub_num, when the row
\* has more than one cell.  The read of pub_num raises UnboundLocalError
\* while it is unbound.
SecondCellTitle(row, pub_num) ==
    LET cell_text == GetText(row.cells[2])
        cleaned   == IF pub_num[1] # <<>> /\ Contains(cell_text, pub_num[1])
                     THEN Strip(Replace(cell_text, pub_num[1]))
                     ELSE cell_text
    IN  IF TextLen(cleaned) > 10 THEN cleaned ELSE <<>>

\* Estratégia 4: the first cell longer than 20 characters that is no number
RECURSIVE AnyCellTitle(_)
AnyCellTitle(cells) ==
    IF cells = <<>> THEN <<>>
    ELSE IF TextLen(GetText(Head(cells))) > 20 /\ ~IsDigit(GetText(Head(cells)))
         THEN GetText(Head(cells))
         ELSE AnyCellTitle(Tail(cells))

\* `if not title and len(cells) > 1:` is entered, and pub_num is read
ReadsPubNum(row, title2) == title2 = <<>> /\ Len(row.cells) > 1

\* The body of `for idx, row in enumerate(result_rows, 1)` for one row:
\* outcome "appended", "ignored" (minimum fields missing) or "error" (the
\* except clause of the row), the record, and pub_num after the row
ExtractRow(row, pub_num) ==
    LET publicationNumber ==
            IF row.link # <<>> THEN GetText(row.link[1].text)
            ELSE GetText(row.cells[1])
        detailUrl == IF row.link # <<>> THEN DetailUrl(row.link[1].href) ELSE <<>>
        title1 == IF row.title_span # <<>> THEN GetText(row.title_span[1]) ELSE <<>>
        title2 == IF title1 = <<>> /\ row.link # <<>>
                  THEN GetText(row.link[1].text) ELSE title1
        raises == ReadsPubNum(row, title2) /\ pub_num = Unbound
        title3 == IF ReadsPubNum(row, title2) /\ pub_num # Unbound
                  THEN SecondCellTitle(row, pub_num) ELSE title2
        title  == IF title3 = <<>> THEN AnyCellTitle(row.cells) ELSE title3
        patente == [ publicationNumber |-> publicationNumber,
                     detailUrl  |-> detailUrl,
                     title      |-> title,
                     applicants |-> IF row.applicant # <<>>
                                    THEN SplitNames(GetText(row.applicant[1]))
                                    ELSE <<>> ]
    IN  IF raises
        THEN [outcome |-> "error", patente |-> <<>>, pub_num |-> pub_num]
        ELSE [outcome |-> IF publicationNumber # <<>> /\ title # <<>>
                          THEN "appended" ELSE "ignored",
              patente |-> <<patente>>,
              pub_num |-> <<publicationNumber>>]

\* The loop over the rows: what each row gave, in order
RECURSIVE ExtractRows(_, _)
ExtractRows(rows, pub_num) ==
    IF rows = <<>> THEN <<>>
    ELSE LET r == ExtractRow(Head(rows), pub_num)
         IN  <<r>> \o ExtractRows(Tail(rows), r.pub_num)

\* patentes: the records of the rows that were appended
Appended(outs) ==
    LET kept == SelectSeq(outs, LAMBDA r : r.outcome = "appended")
    IN  [i \in 1..Len(kept) |-> kept[i].patente[1]]

\* _extrair_dados_patentes_selenium on a page with a result table
ExtrairDadosPatentes ==
    /\ xpc = "start"
    /\ row_outcomes' = ExtractRows(result_rows, Unbound)
    /\ patentes_pagina' = Appended(row_outcomes')
    /\ xpc' = "extracted"
    /\ UNCHANGED result_rows

RowsIdle ==
    /\ result_rows = <<>>
    /\ row_outcomes = <<>>
    /\ patentes_pagina = <<>>
    /\ xpc = "idle"

RowsInit ==
    /\ result_rows \in ResultTables
    /\ row_outcomes = <<>>
    /\ patentes_pagina = <<>>
    /\ xpc = "start"

----------------------------------------------------------------------------
(* Production and demonstration mode of the Selenium scraper *)

MaxSearches == 2       \* buscar_patentes calls made on one scraper

\* `for i in range(min(limite, 10))` of _gerar_dados_demonstracao
MaxDemo == 10
\* 'ABCDEFGH'[i] raises IndexError from this i on
DemoLetters == 8

\* A record as far as its origin goes: the 'fonte' field and its place
Registro(fonte, i) == [fonte |-> fonte, n |-> i]

\* _gerar_dados_demonstracao(termo_busca, limite, ...): the list, or <<>>
\* with raised = TRUE when the loop reaches an i without a letter
DadosDemonstracao(lim) ==
    LET n == Min(lim, MaxDemo)
    IN  IF n > DemoLetters
        THEN [raised |-> TRUE, patentes |-> <<>>]
        ELSE [raised |-> FALSE,
              patentes |-> [i \in 1..n |-> Registro("PatentScope (DEMO)", i)]]

\* What _buscar_com_selenium extracted from the portal: n records
DadosReais(n) == [i \in 1..n |-> Registro("PatentScope (REAL)", i)]

\* _init_driver's except clause: self.use_demo_mode = True
DemoAfterFailure(flag) == TRUE

\* _init_driver: webdriver.Chrome(...) starts (ok) or raises
init_driver(s, ok) ==
    IF ok THEN [s EXCEPT !.driver = "alive"]
    ELSE [s EXCEPT !.use_demo_mode = DemoAfterFailure(@), !.driver = "None"]

\* PatentScopeScraper.__init__(use_demo_mode=...)
InitScraper ==
    /\ mpc = "new"
    /\ IF mode_arg
       THEN scraper' = [use_demo_mode |-> TRUE, driver |-> "None"]
       ELSE \E ok \in BOOLEAN :
               scraper' = init_driver([use_demo_mode |-> FALSE, driver |-> "None"], ok)
    /\ mpc' = "ready"
    /\ UNCHANGED <<mode_arg, busca_result, searches>>

\* The browser behind a live driver goes away
DriverDies ==
    /\ mpc = "ready"
    /\ scraper.driver = "alive"
    /\ scraper' = [scraper EXCEPT !.driver = "dead"]
    /\ UNCHANGED <<mode_arg, busca_result, searches, mpc>>

\* The driver checks at the top of _buscar_com_selenium: a dead driver is
\* quit and started again, a missing one is started
ReviveDriver(s, ok1, ok2) ==
    LET s1 == IF s.driver = "dead" THEN init_driver([s EXCEPT !.driver = "None"], ok1)
              ELSE s
    IN  IF s1.driver = "None" THEN init_driver(s1, ok2) ELSE s1

\* buscar_patentes(termo, limite=lim): the Selenium search when the scraper
\* is not in demo mode and has a driver, the demonstration data otherwise;
\* every record of either kind passes validate_patent
BuscarPatentes ==
    /\ mpc = "ready"
    /\ Len(searches) < MaxSearches
    /\ \E lim \in 1..MaxLimite :
          /\ IF ~scraper.use_demo_mode /\ scraper.driver # "None"
             THEN \E ok1 \in BOOLEAN, ok2 \in BOOLEAN, n \in 0..MaxPageRows :
                     /\ scraper' = ReviveDriver(scraper, ok1, ok2)
                     /\ busca_result' =
                           IF scraper'.driver = "None" THEN <<>>   \* self.driver.get raises
                           ELSE Truncate(DadosReais(n), lim)
             ELSE /\ busca_result' = Truncate(DadosDemonstracao(lim).patentes, lim)
                  /\ UNCHANGED scraper
          /\ searches' = Append(searches, lim)
    /\ UNCHANGED <<mode_arg, mpc>>

ModeIdle ==
    /\ mode_arg = FALSE
    /\ scraper = [use_demo_mode |-> FALSE, driver |-> "None"]
    /\ busca_result = <<>>
    /\ searches = <<>>
    /\ mpc = "idle"

ModeInit ==
    /\ mode_arg \in BOOLEAN
    /\ scraper = [use_demo_mode |-> FALSE, driver |-> "None"]
    /\ busca_result = <<>>
    /\ searches = <<>>
    /\ mpc = "new"

----------------------------------------------------------------------------
(* Detail enrichment: patentscope_detalhes.enriquecer_patentes_com_detalhes *)

MaxDetalhes == 3       \* the list handed over holds 0..MaxDetalhes patents

\* The i-th patent of the list, with or without a detailUrl; the key
\* detalhes_completos is missing (<<>>) until the detail page is read
PatenteBasica(i, has_url) ==
    [ publicationNumber |-> i,
      detailUrl |-> IF has_url THEN <<"detail.jsf?docId=", i>> ELSE <<>>,
      detalhes_completos |-> <<>> ]

ListasDePatentes ==
    UNION { { [i \in 1..n |-> PatenteBasica(i, urls[i])] : urls \in [1..n -> BOOLEAN] } :
            n \in 0..MaxDetalhes }

\* The scraper that main() builds and whose driver it hands over
MainScraper == 1

\* time.sleep(3) after driver.get(detail_url)
DetailLoadSleep == 3
\* WebDriverWait(self.driver, 20) for 'Loading' to leave the page
LoadingTimeout == 20
\* WebDriverWait(self.driver, 15) for an h1
HeadingTimeout == 15
\* time.sleep(5) before the page is read
DetailRenderSleep == 5
\* time.sleep(2) between two patents
BetweenDetailsSleep == 2

DriverGet(url) == [op |-> "get", url |-> url, seconds |-> 0]
TimeSleep(seconds) == [op |-> "sleep", url |-> <<>>, seconds |-> seconds]
DriverWait(seconds) == [op |-> "wait", url |-> <<>>, seconds |-> seconds]
WaitTimeout(seconds) == [op |-> "timeout", url |-> <<>>, seconds |-> seconds]
SaveScreenshot == [op |-> "save_screenshot", url |-> <<>>, seconds |-> 0]

\* What a WebDriverWait does: its condition is met, it times out
\* (TimeoutException, caught at the wait) or it raises another exception
\* (caught by the `except Exception` of obter_detalhes_completos)
WaitOutcomes == {"met", "timeout", "raises"}

\* patentes_para_processar and the patent of this turn of the loop
PatentesParaProcessar == ParaProcessar(det_patentes, max_detalhes)
PatenteAtual == PatentesParaProcessar[det_i]

\* The thread of main() is inside the call, at position `at`, and not asleep
DetalhesAt(at) ==
    /\ epc = at
    /\ Awake(MainScraper)

\* obter_detalhes_completos returns `record`, after the driver calls `steps`
\* and `loaded` page loads: patentes_enriquecidas.append(...), then
\* `if i < total: time.sleep(2)` and the next turn, or the return of the list
AppendAndGoOn(record, steps, loaded) ==
    /\ enriquecidas' = Append(enriquecidas, record)
    /\ IF det_i < Len(PatentesParaProcessar)
       THEN /\ det_i' = det_i + 1
            /\ epc' = "next"
            /\ driver_log' = driver_log \o steps \o <<TimeSleep(BetweenDetailsSleep)>>
            /\ scrapers' = [scrapers EXCEPT
                              ![MainScraper].loads = @ + loaded,
                              ![MainScraper].sleeping = Seconds(BetweenDetailsSleep)]
       ELSE /\ det_i' = det_i
            /\ epc' = "enriched"
            /\ driver_log' = driver_log \o steps
            /\ scrapers' = [scrapers EXCEPT ![MainScraper].loads = @ + loaded,
                                            ![MainScraper].pc = "ready"]

\* enriquecer_patentes_com_detalhes(patentes, driver, max_detalhes), to its
\* loop: the list to process is cut, and an empty one is returned at once
EnriquecerComDetalhes ==
    /\ DetalhesAt("start")
    /\ scrapers[MainScraper].pc = "ready"
    /\ enriquecidas' = <<>>
    /\ det_i' = 1
    /\ IF PatentesParaProcessar = <<>>
       THEN epc' = "enriched" /\ UNCHANGED scrapers
       ELSE /\ epc' = "next"
            /\ scrapers' = [scrapers EXCEPT ![MainScraper].pc = "enriching"]
    /\ last_call' = Call(MainScraper, "enriquecer")
    /\ UNCHANGED <<det_patentes, max_detalhes, driver_log, heap, portal_log>>

\* obter_detalhes_completos: `if not detail_url: return patente`
SemDetailUrl ==
    /\ DetalhesAt("next")
    /\ PatenteAtual.detailUrl = <<>>
    /\ AppendAndGoOn(PatenteAtual, <<>>, 0)
    /\ last_call' = Call(MainScraper, "no_detail_url")
    /\ UNCHANGED <<det_patentes, max_detalhes, heap, portal_log>>

\* obter_detalhes_completos: self.driver.get(detail_url), a request to the
\* portal that no rate_limiter.wait() precedes; then time.sleep(3), or, when
\* the get raises, `return patente`
DetailGet ==
    \E ok \in BOOLEAN :
        /\ DetalhesAt("next")
        /\ PatenteAtual.detailUrl # <<>>
        /\ portal_log' = portal_log \cup
              {Request(MainScraper, "detail_page", FALSE, "none")}
        /\ IF ok
           THEN /\ epc' = "loaded"
                /\ driver_log' = driver_log \o <<DriverGet(PatenteAtual.detailUrl),
                                                 TimeSleep(DetailLoadSleep)>>
                /\ scrapers' = [scrapers EXCEPT
                                  ![MainScraper].loads = @ + 1,
                                  ![MainScraper].sleeping = Seconds(DetailLoadSleep)]
                /\ UNCHANGED <<det_i, enriquecidas>>
           ELSE AppendAndGoOn(PatenteAtual,
                              <<DriverGet(PatenteAtual.detailUrl)>>, 1)
        /\ last_call' = Call(MainScraper, "detail_page")
        /\ UNCHANGED <<det_patentes, max_detalhes, heap>>

\* One WebDriverWait of obter_detalhes_completos, from `at` to `to`
DetailPageWait(at, to, timeout, outcome) ==
    /\ DetalhesAt(at)
    /\ IF outcome = "raises"
       THEN AppendAndGoOn(PatenteAtual, <<DriverWait(timeout)>>, 0)
       ELSE /\ epc' = to
            /\ driver_log' = driver_log \o <<DriverWait(timeout)>>
                  \o (IF outcome = "timeout" THEN <<WaitTimeout(timeout)>> ELSE <<>>)
            /\ scrapers' = [scrapers EXCEPT ![MainScraper].sleeping =
                              IF outcome = "timeout" THEN Seconds(timeout) ELSE 0]
            /\ UNCHANGED <<det_i, enriquecidas>>
    /\ last_call' = Call(MainScraper, "detail_wait")
    /\ UNCHANGED <<det_patentes, max_detalhes, heap, portal_log>>

\* WebDriverWait(self.driver, 20).until_not(... 'Loading' ...)
WaitLoading ==
    \E outcome \in WaitOutcomes :
        DetailPageWait("loaded", "shown", LoadingTimeout, outcome)

\* WebDriverWait(self.driver, 15).until(... h1 ...)
WaitHeading ==
    \E outcome \in WaitOutcomes :
        DetailPageWait("shown", "found", HeadingTimeout, outcome)

\* time.sleep(5) "para JavaScript processar"
DetailRenderWait ==
    /\ DetalhesAt("found")
    /\ epc' = "rendered"
    /\ driver_log' = Append(driver_log, TimeSleep(DetailRenderSleep))
    /\ scrapers' = [scrapers EXCEPT
                      ![MainScraper].sleeping = Seconds(DetailRenderSleep)]
    /\ last_call' = Call(MainScraper, "detail_sleep")
    /\ UNCHANGED <<det_patentes, max_detalhes, det_i, enriquecidas, heap, portal_log>>

\* obter_detalhes_completos: the page is parsed, the fields are added to a
\* copy of the patent and the screenshot is taken; `return patente` when
\* the extraction raises
ExtractDetails ==
    \E ok \in BOOLEAN :
        /\ DetalhesAt("rendered")
        /\ IF ok
           THEN AppendAndGoOn(obter_detalhes_completos(PatenteAtual, TRUE),
                              <<SaveScreenshot>>, 0)
           ELSE AppendAndGoOn(obter_detalhes_completos(PatenteAtual, FALSE),
                              <<>>, 0)
        /\ last_call' = Call(MainScraper, "extract")
        /\ UNCHANGED <<det_patentes, max_detalhes, heap, portal_log>>

\* The time.sleep that the thread of main() is in comes to its end
DetalhesClock == ClockRuns /\ UNCHANGED detVars

DetalhesIdle ==
    /\ det_patentes = <<>>
    /\ max_detalhes = <<>>
    /\ det_i = 0
    /\ enriquecidas = <<>>
    /\ driver_log = <<>>
    /\ epc = "idle"

DetalhesInit ==
    /\ det_patentes \in ListasDePatentes
    /\ max_detalhes \in {<<>>} \cup { <<k>> : k \in 0..MaxDetalhes }
    /\ det_i = 0
    /\ enriquecidas = <<>>
    /\ driver_log = <<>>
    /\ epc = "start"

\* The scraper of main(), built and with its driver started
DetalhesSession ==
    /\ heap = <<RateLimiterInit(0, 0)>>
    /\ scrapers = [s \in Sessions |->
                     IF s = MainScraper
                     THEN [NoScraper EXCEPT !.rate_limiter = 1, !.pc = "ready"]
                     ELSE NoScraper]
    /\ portal_log = {}
    /\ last_call = Call(MainScraper, "init")

----------------------------------------------------------------------------
(* IncrementalSaver *)

MaxChunkSize == 3      \* chunk_size ranges over 1..MaxChunkSize
MaxAdds      == 4      \* add_data calls made on one saver
MaxFailedWrites == 1   \* chunk files left behind by writes that failed

\* IncrementalSaver.__init__(base_filename, chunk_size)
NewSaver(size) == [chunk_size |-> size, current_data |-> <<>>, total_saved |-> 0]

\* a buffer that is saved one record late
ChunkFullMut(n, size) == n > size
\* `if len(self.current_data) >= self.chunk_size`
ChunkFull(n, size) == n >= size

\* What the disk does with the write of one chunk file: the file is written,
\* open() raises (nothing is written), or the write raises after open() has
\* created the file
DiskOutcomes == {"ok", "open_fails", "write_fails"}

\* A chunk file: the total_saved of its name, the records in it, and whether
\* json.dump wrote it to the end
ChunkFile(index, records, complete) ==
    [index |-> index, records |-> records, complete |-> complete]

\* open(filename, 'w'): the name holds total_saved and the time in seconds, so
\* a file of the same total_saved written in the same second is replaced
Written(files, file, same_second) ==
    IF same_second /\ files # <<>> /\ files[Len(files)].index = file.index
    THEN [files EXCEPT ![Len(files)] = file]
    ELSE Append(files, file)

\* save_chunk(): nothing to do on an empty buffer; otherwise the buffer is
\* written to a new file and emptied.  When open() raises the saver and the
\* files are left as they were; when the write raises the saver is left as it
\* was and the file stays, holding the first `done` records of the buffer.
\* Gives the saver, the files and whether it raised.
save_chunk(s, files, disk, same_second, done) ==
    IF s.current_data = <<>>
    THEN [saver |-> s, files |-> files, raised |-> FALSE]
    ELSE IF disk = "open_fails"
    THEN [saver |-> s, files |-> files, raised |-> TRUE]
    ELSE IF disk = "write_fails"
    THEN [saver |-> s,
          files |-> Written(files,
                            ChunkFile(s.total_saved,
                                      SubSeq(s.current_data, 1,
                                             Min(done, Len(s.current_data))),
                                      FALSE),
                            same_second),
          raised |-> TRUE]
    ELSE [saver |-> [s EXCEPT !.total_saved = @ + Len(s.current_data),
                              !.current_data = <<>>],
          files |-> Written(files, ChunkFile(s.total_saved, s.current_data, TRUE),
                            same_second),
          raised |-> FALSE]

\* add_data(data)
add_data(s, files, data, disk, same_second, done) ==
    LET s1 == [s EXCEPT !.current_data = Append(@, data)]
    IN  IF ChunkFull(Len(s1.current_data), s1.chunk_size)
        THEN save_chunk(s1, files, disk, same_second, done)
        ELSE [saver |-> s1, files |-> files, raised |-> FALSE]

\* finalize()
finalize(s, files, disk, same_second, done) ==
    IF s.current_data # <<>> THEN save_chunk(s, files, disk, same_second, done)
    ELSE [saver |-> s, files |-> files, raised |-> FALSE]

Outcome(op, r) == [op |-> op, raised |-> r.raised]

\* The files that a failed write left behind
Truncated(files) == SelectSeq(files, LAMBDA f : ~f.complete)

\* The writes that the disk may refuse now
DiskNow == IF Len(Truncated(chunk_files)) < MaxFailedWrites THEN DiskOutcomes
           ELSE DiskOutcomes \ {"write_fails"}

\* saver.add_data(patente): the records are numbered in the order added
AddData ==
    /\ adds < MaxAdds
    /\ \E disk \in DiskNow, same_second \in BOOLEAN, done \in 0..MaxChunkSize :
          LET r == add_data(saver, chunk_files, adds + 1, disk, same_second, done)
          IN  /\ saver' = r.saver
              /\ chunk_files' = r.files
              /\ saver_call' = Outcome("add_data", r)
    /\ adds' = adds + 1

\* saver.save_chunk()
SaveChunk ==
    /\ \E disk \in DiskNow, same_second \in BOOLEAN, done \in 0..MaxChunkSize :
          LET r == save_chunk(saver, chunk_files, disk, same_second, done)
          IN  /\ saver' = r.saver
              /\ chunk_files' = r.files
              /\ saver_call' = Outcome("save_chunk", r)
    /\ UNCHANGED adds

\* saver.finalize()
Finalize ==
    /\ \E disk \in DiskNow, same_second \in BOOLEAN, done \in 0..MaxChunkSize :
          LET r == finalize(saver, chunk_files, disk, same_second, done)
          IN  /\ saver' = r.saver
              /\ chunk_files' = r.files
              /\ saver_call' = Outcome("finalize", r)
    /\ UNCHANGED adds

SaverIdle ==
    /\ saver = NewSaver(0)
    /\ chunk_files = <<>>
    /\ adds = 0
    /\ saver_call = [op |-> "none", raised |-> FALSE]

SaverInit ==
    /\ \E size \in 1..MaxChunkSize : saver = NewSaver(size)
    /\ chunk_files = <<>>
    /\ adds = 0
    /\ saver_call = [op |-> "init", raised |-> FALSE]

----------------------------------------------------------------------------
(* The request of one search: app/scraper.py search_by_molecule, up to the
   fetch *)

\* MoleculeSearchRequest.search_type
SearchTypes == {"exact", "similarity", "substructure"}

\* a query that marks every search that is not exact
QueryForMut(input, stype) ==
    IF stype = "exact" THEN build_molecule_query(input)
    ELSE <<stype, ":">> \o build_molecule_query(input)
\* self._build_molecule_query(molecule, search_type): search_type is a
\* parameter that the body never reads
QueryFor(input, stype) == build_molecule_query(input)

\* The params dict of search_by_molecule
RequestParams(input, stype, pg, size) ==
    [ query      |-> QueryFor(input, stype),
      office     |-> "all",
      sortOption |-> "Relevance",
      maxRec     |-> size,
      startRec   |-> (pg - 1) * size + 1 ]

\* search_by_molecule(molecule, search_type, page, page_size), to the call
\* of _fetch_with_retry(self.SEARCH_URL, params)
SendSearchRequest ==
    /\ sent_params = None
    /\ sent_params' = <<RequestParams(param_molecule, search_type, param_page,
                                      param_page_size)>>
    /\ UNCHANGED <<param_molecule, search_type, param_page, param_page_size>>

ParamsIdle ==
    /\ param_molecule = <<>>
    /\ search_type = "none"
    /\ param_page = 0
    /\ param_page_size = 0
    /\ sent_params = <<"idle">>

ParamsInit ==
    /\ param_molecule \in Molecules
    /\ search_type \in SearchTypes
    /\ param_page \in 1..MaxPage
    /\ param_page_size \in 1..MaxPageSize
    /\ sent_params = None

----------------
(* Specifications *)

DelayArgs == 0..MaxDelayArg

InitRL ==
    /\ (\E a \in DelayArgs, b \in DelayArgs : RLInit(a, b))
    /\ FetchIdle
    /\ CrawlIdle
    /\ DedupeIdle
    /\ ParseIdle
    /\ CountIdle
    /\ QueryIdle
    /\ SearchIdle
    /\ SessionsIdle
    /\ PageIdle
    /\ RowsIdle
    /\ ModeIdle
    /\ DetalhesIdle
    /\ SaverIdle
    /\ ParamsIdle
NextRL ==
    \/ Wait
          /\ UNCHANGED <<fetchVars, crawlVars, dedupeVars, parseVars, countVars, queryVars, searchVars, sessVars, pageVars, rowVars, modeVars, detVars, saverVars, paramVars>>
    \/ RecordSuccess
          /\ UNCHANGED <<fetchVars, crawlVars, dedupeVars, parseVars, countVars, queryVars, searchVars, sessVars, pageVars, rowVars, modeVars, detVars, saverVars, paramVars>>
    \/ RecordError
          /\ UNCHANGED <<fetchVars, crawlVars, dedupeVars, parseVars, countVars, queryVars, searchVars, sessVars, pageVars, rowVars, modeVars, detVars, saverVars, paramVars>>
    \/ TimePasses
          /\ UNCHANGED <<fetchVars, crawlVars, dedupeVars, parseVars, countVars, queryVars, searchVars, sessVars, pageVars, rowVars, modeVars, detVars, saverVars, paramVars>>
SpecRL == InitRL /\ [][NextRL]_vars

InitFetch ==
    /\ RLInit(0, 0)
    /\ FetchInit
    /\ CrawlIdle
    /\ DedupeIdle
    /\ ParseIdle
    /\ CountIdle
    /\ QueryIdle
    /\ SearchIdle
    /\ SessionsIdle
    /\ PageIdle
    /\ RowsIdle
    /\ ModeIdle
    /\ DetalhesIdle
    /\ SaverIdle
    /\ ParamsIdle
NextFetch ==
    \/ FetchAttempt
          /\ UNCHANGED <<crawlVars, dedupeVars, parseVars, countVars, queryVars, searchVars, sessVars, pageVars, rowVars, modeVars, detVars, saverVars, paramVars>>
    \/ MakeRequestAttempt
          /\ UNCHANGED <<crawlVars, dedupeVars, parseVars, countVars, queryVars, searchVars, sessVars, pageVars, rowVars, modeVars, detVars, saverVars, paramVars>>
SpecFetch == InitFetch /\ [][NextFetch]_vars

InitCrawl ==
    /\ RLInit(0, 0)
    /\ FetchIdle
    /\ CrawlInit
    /\ DedupeIdle
    /\ ParseIdle
    /\ CountIdle
    /\ QueryIdle
    /\ SearchIdle
    /\ SessionsIdle
    /\ PageIdle
    /\ RowsIdle
    /\ ModeIdle
    /\ DetalhesIdle
    /\ SaverIdle
    /\ ParamsIdle
NextCrawl ==
    \/ FirstPage
          /\ UNCHANGED <<rlVars, fetchVars, dedupeVars, parseVars, countVars, queryVars, searchVars, sessVars, pageVars, rowVars, modeVars, detVars, saverVars, paramVars>>
    \/ NextPage
          /\ UNCHANGED <<rlVars, fetchVars, dedupeVars, parseVars, countVars, queryVars, searchVars, sessVars, pageVars, rowVars, modeVars, detVars, saverVars, paramVars>>
    \/ LoopExit
          /\ UNCHANGED <<rlVars, fetchVars, dedupeVars, parseVars, countVars, queryVars, searchVars, sessVars, pageVars, rowVars, modeVars, detVars, saverVars, paramVars>>
    \/ ValidateResults
          /\ UNCHANGED <<rlVars, fetchVars, dedupeVars, parseVars, countVars, queryVars, searchVars, sessVars, pageVars, rowVars, modeVars, detVars, saverVars, paramVars>>
SpecCrawl == InitCrawl /\ [][NextCrawl]_vars

InitDedupe ==
    /\ RLInit(0, 0)
    /\ FetchIdle
    /\ CrawlIdle
    /\ DedupeInit
    /\ ParseIdle
    /\ CountIdle
    /\ QueryIdle
    /\ SearchIdle
    /\ SessionsIdle
    /\ PageIdle
    /\ RowsIdle
    /\ ModeIdle
    /\ DetalhesIdle
    /\ SaverIdle
    /\ ParamsIdle
NextDedupe ==
    \/ RemoveDuplicatas
          /\ UNCHANGED <<rlVars, fetchVars, crawlVars, parseVars, countVars, queryVars, searchVars, sessVars, pageVars, rowVars, modeVars, detVars, saverVars, paramVars>>
    \/ EnriquecerPatentes
          /\ UNCHANGED <<rlVars, fetchVars, crawlVars, parseVars, countVars, queryVars, searchVars, sessVars, pageVars, rowVars, modeVars, detVars, saverVars, paramVars>>
    \/ SalvaAgrupadas
          /\ UNCHANGED <<rlVars, fetchVars, crawlVars, parseVars, countVars, queryVars, searchVars, sessVars, pageVars, rowVars, modeVars, detVars, saverVars, paramVars>>
    \/ Agrupar
          /\ UNCHANGED <<rlVars, fetchVars, crawlVars, parseVars, countVars, queryVars, searchVars, sessVars, pageVars, rowVars, modeVars, detVars, saverVars, paramVars>>
SpecDedupe == InitDedupe /\ [][NextDedupe]_vars

InitParse ==
    /\ RLInit(0, 0)
    /\ FetchIdle
    /\ CrawlIdle
    /\ DedupeIdle
    /\ ParseInit
    /\ CountIdle
    /\ QueryIdle
    /\ SearchIdle
    /\ SessionsIdle
    /\ PageIdle
    /\ RowsIdle
    /\ ModeIdle
    /\ DetalhesIdle
    /\ SaverIdle
    /\ ParamsIdle
NextParse ==
    \/ ParseSearchResults
          /\ UNCHANGED <<rlVars, fetchVars, crawlVars, dedupeVars, countVars, queryVars, searchVars, sessVars, pageVars, rowVars, modeVars, detVars, saverVars, paramVars>>
    \/ SearchEndpoint
          /\ UNCHANGED <<rlVars, fetchVars, crawlVars, dedupeVars, countVars, queryVars, searchVars, sessVars, pageVars, rowVars, modeVars, detVars, saverVars, paramVars>>
SpecParse == InitParse /\ [][NextParse]_vars

InitCount ==
    /\ RLInit(0, 0)
    /\ FetchIdle
    /\ CrawlIdle
    /\ DedupeIdle
    /\ ParseIdle
    /\ CountInit
    /\ QueryIdle
    /\ SearchIdle
    /\ SessionsIdle
    /\ PageIdle
    /\ RowsIdle
    /\ ModeIdle
    /\ DetalhesIdle
    /\ SaverIdle
    /\ ParamsIdle
NextCount ==
    \/ ExtractTotalResults
          /\ UNCHANGED <<rlVars, fetchVars, crawlVars, dedupeVars, parseVars, queryVars, searchVars, sessVars, pageVars, rowVars, modeVars, detVars, saverVars, paramVars>>
SpecCount == InitCount /\ [][NextCount]_vars

InitQuery ==
    /\ RLInit(0, 0)
    /\ FetchIdle
    /\ CrawlIdle
    /\ DedupeIdle
    /\ ParseIdle
    /\ CountIdle
    /\ QueryInit
    /\ SearchIdle
    /\ SessionsIdle
    /\ PageIdle
    /\ RowsIdle
    /\ ModeIdle
    /\ DetalhesIdle
    /\ SaverIdle
    /\ ParamsIdle
NextQuery ==
    \/ BuildMoleculeQuery
          /\ UNCHANGED <<rlVars, fetchVars, crawlVars, dedupeVars, parseVars, countVars, searchVars, sessVars, pageVars, rowVars, modeVars, detVars, saverVars, paramVars>>
    \/ ConstruirQuery
          /\ UNCHANGED <<rlVars, fetchVars, crawlVars, dedupeVars, parseVars, countVars, searchVars, sessVars, pageVars, rowVars, modeVars, detVars, saverVars, paramVars>>
SpecQuery == InitQuery /\ [][NextQuery]_vars

InitSearch ==
    /\ RLInit(0, 0)
    /\ FetchIdle
    /\ CrawlIdle
    /\ DedupeIdle
    /\ ParseIdle
    /\ CountIdle
    /\ QueryIdle
    /\ SearchInit
    /\ SessionsIdle
    /\ PageIdle
    /\ RowsIdle
    /\ ModeIdle
    /\ DetalhesIdle
    /\ SaverIdle
    /\ ParamsIdle
NextSearch ==
    \/ SearchByMolecule
          /\ UNCHANGED <<rlVars, fetchVars, crawlVars, dedupeVars, parseVars, countVars, queryVars, sessVars, pageVars, rowVars, modeVars, detVars, saverVars, paramVars>>
    \/ SearchMolecule
          /\ UNCHANGED <<rlVars, fetchVars, crawlVars, dedupeVars, parseVars, countVars, queryVars, sessVars, pageVars, rowVars, modeVars, detVars, saverVars, paramVars>>
SpecSearch == InitSearch /\ [][NextSearch]_vars

InitSessions ==
    /\ RLInit(0, 0)
    /\ FetchIdle
    /\ CrawlIdle
    /\ DedupeIdle
    /\ ParseIdle
    /\ CountIdle
    /\ QueryIdle
    /\ SearchIdle
    /\ SessionsInit
    /\ PageIdle
    /\ RowsIdle
    /\ ModeIdle
    /\ DetalhesIdle
    /\ SaverIdle
    /\ ParamsIdle
NextSessions ==
    \/ NewScraper
          /\ UNCHANGED <<rlVars, fetchVars, crawlVars, dedupeVars, parseVars, countVars, queryVars, searchVars, pageVars, rowVars, modeVars, detVars, saverVars, paramVars>>
    \/ OpenSearchPage
          /\ UNCHANGED <<rlVars, fetchVars, crawlVars, dedupeVars, parseVars, countVars, queryVars, searchVars, pageVars, rowVars, modeVars, detVars, saverVars, paramVars>>
    \/ WaitForSearchField
          /\ UNCHANGED <<rlVars, fetchVars, crawlVars, dedupeVars, parseVars, countVars, queryVars, searchVars, pageVars, rowVars, modeVars, detVars, saverVars, paramVars>>
    \/ NoSearchField
          /\ UNCHANGED <<rlVars, fetchVars, crawlVars, dedupeVars, parseVars, countVars, queryVars, searchVars, pageVars, rowVars, modeVars, detVars, saverVars, paramVars>>
    \/ FindSearchField
          /\ UNCHANGED <<rlVars, fetchVars, crawlVars, dedupeVars, parseVars, countVars, queryVars, searchVars, pageVars, rowVars, modeVars, detVars, saverVars, paramVars>>
    \/ FieldRaises
          /\ UNCHANGED <<rlVars, fetchVars, crawlVars, dedupeVars, parseVars, countVars, queryVars, searchVars, pageVars, rowVars, modeVars, detVars, saverVars, paramVars>>
    \/ TypeQuery
          /\ UNCHANGED <<rlVars, fetchVars, crawlVars, dedupeVars, parseVars, countVars, queryVars, searchVars, pageVars, rowVars, modeVars, detVars, saverVars, paramVars>>
    \/ SubmitSearch
          /\ UNCHANGED <<rlVars, fetchVars, crawlVars, dedupeVars, parseVars, countVars, queryVars, searchVars, pageVars, rowVars, modeVars, detVars, saverVars, paramVars>>
    \/ NotAResultPage
          /\ UNCHANGED <<rlVars, fetchVars, crawlVars, dedupeVars, parseVars, countVars, queryVars, searchVars, pageVars, rowVars, modeVars, detVars, saverVars, paramVars>>
    \/ WaitForResultTable
          /\ UNCHANGED <<rlVars, fetchVars, crawlVars, dedupeVars, parseVars, countVars, queryVars, searchVars, pageVars, rowVars, modeVars, detVars, saverVars, paramVars>>
    \/ NoResults
          /\ UNCHANGED <<rlVars, fetchVars, crawlVars, dedupeVars, parseVars, countVars, queryVars, searchVars, pageVars, rowVars, modeVars, detVars, saverVars, paramVars>>
    \/ RenderResults
          /\ UNCHANGED <<rlVars, fetchVars, crawlVars, dedupeVars, parseVars, countVars, queryVars, searchVars, pageVars, rowVars, modeVars, detVars, saverVars, paramVars>>
    \/ FirstResultPage
          /\ UNCHANGED <<rlVars, fetchVars, crawlVars, dedupeVars, parseVars, countVars, queryVars, searchVars, pageVars, rowVars, modeVars, detVars, saverVars, paramVars>>
    \/ NextPageClick
          /\ UNCHANGED <<rlVars, fetchVars, crawlVars, dedupeVars, parseVars, countVars, queryVars, searchVars, pageVars, rowVars, modeVars, detVars, saverVars, paramVars>>
    \/ NextResultPage
          /\ UNCHANGED <<rlVars, fetchVars, crawlVars, dedupeVars, parseVars, countVars, queryVars, searchVars, pageVars, rowVars, modeVars, detVars, saverVars, paramVars>>
    \/ SearchReturns
          /\ UNCHANGED <<rlVars, fetchVars, crawlVars, dedupeVars, parseVars, countVars, queryVars, searchVars, pageVars, rowVars, modeVars, detVars, saverVars, paramVars>>
    \/ DetailWait
          /\ UNCHANGED <<rlVars, fetchVars, crawlVars, dedupeVars, parseVars, countVars, queryVars, searchVars, pageVars, rowVars, modeVars, detVars, saverVars, paramVars>>
    \/ WaitEnds
          /\ UNCHANGED <<rlVars, fetchVars, crawlVars, dedupeVars, parseVars, countVars, queryVars, searchVars, pageVars, rowVars, modeVars, detVars, saverVars, paramVars>>
    \/ DetailRequest
          /\ UNCHANGED <<rlVars, fetchVars, crawlVars, dedupeVars, parseVars, countVars, queryVars, searchVars, pageVars, rowVars, modeVars, detVars, saverVars, paramVars>>
    \/ ClockRuns
          /\ UNCHANGED <<rlVars, fetchVars, crawlVars, dedupeVars, parseVars, countVars, queryVars, searchVars, pageVars, rowVars, modeVars, detVars, saverVars, paramVars>>
SpecSessions == InitSessions /\ [][NextSessions]_vars

InitLimiters ==
    /\ RLInit(0, 0)
    /\ FetchIdle
    /\ CrawlIdle
    /\ DedupeIdle
    /\ ParseIdle
    /\ CountIdle
    /\ QueryIdle
    /\ SearchIdle
    /\ SessionsInit
    /\ PageIdle
    /\ RowsIdle
    /\ ModeIdle
    /\ DetalhesIdle
    /\ SaverIdle
    /\ ParamsIdle
NextLimiters ==
    \/ NewScraper
          /\ UNCHANGED <<rlVars, fetchVars, crawlVars, dedupeVars, parseVars, countVars, queryVars, searchVars, pageVars, rowVars, modeVars, detVars, saverVars, paramVars>>
    \/ DetailWait
          /\ UNCHANGED <<rlVars, fetchVars, crawlVars, dedupeVars, parseVars, countVars, queryVars, searchVars, pageVars, rowVars, modeVars, detVars, saverVars, paramVars>>
    \/ WaitEnds
          /\ UNCHANGED <<rlVars, fetchVars, crawlVars, dedupeVars, parseVars, countVars, queryVars, searchVars, pageVars, rowVars, modeVars, detVars, saverVars, paramVars>>
    \/ DetailRequest
          /\ UNCHANGED <<rlVars, fetchVars, crawlVars, dedupeVars, parseVars, countVars, queryVars, searchVars, pageVars, rowVars, modeVars, detVars, saverVars, paramVars>>
    \/ ClockRuns
          /\ UNCHANGED <<rlVars, fetchVars, crawlVars, dedupeVars, parseVars, countVars, queryVars, searchVars, pageVars, rowVars, modeVars, detVars, saverVars, paramVars>>
SpecLimiters == InitLimiters /\ [][NextLimiters]_vars

InitItems ==
    /\ RLInit(0, 0)
    /\ FetchIdle
    /\ CrawlIdle
    /\ DedupeIdle
    /\ ParseIdle
    /\ CountIdle
    /\ QueryIdle
    /\ SearchIdle
    /\ SessionsIdle
    /\ PageInit
    /\ RowsIdle
    /\ ModeIdle
    /\ DetalhesIdle
    /\ SaverIdle
    /\ ParamsIdle
NextItems ==
    \/ ParsePage
          /\ UNCHANGED <<rlVars, fetchVars, crawlVars, dedupeVars, parseVars, countVars, queryVars, searchVars, sessVars, rowVars, modeVars, detVars, saverVars, paramVars>>
SpecItems == InitItems /\ [][NextItems]_vars

InitRows ==
    /\ RLInit(0, 0)
    /\ FetchIdle
    /\ CrawlIdle
    /\ DedupeIdle
    /\ ParseIdle
    /\ CountIdle
    /\ QueryIdle
    /\ SearchIdle
    /\ SessionsIdle
    /\ PageIdle
    /\ RowsInit
    /\ ModeIdle
    /\ DetalhesIdle
    /\ SaverIdle
    /\ ParamsIdle
NextRows ==
    \/ ExtrairDadosPatentes
          /\ UNCHANGED <<rlVars, fetchVars, crawlVars, dedupeVars, parseVars, countVars, queryVars, searchVars, sessVars, pageVars, modeVars, detVars, saverVars, paramVars>>
SpecRows == InitRows /\ [][NextRows]_vars

InitMode ==
    /\ RLInit(0, 0)
    /\ FetchIdle
    /\ CrawlIdle
    /\ DedupeIdle
    /\ ParseIdle
    /\ CountIdle
    /\ QueryIdle
    /\ SearchIdle
    /\ SessionsIdle
    /\ PageIdle
    /\ RowsIdle
    /\ ModeInit
    /\ DetalhesIdle
    /\ SaverIdle
    /\ ParamsIdle
NextMode ==
    \/ InitScraper
          /\ UNCHANGED <<rlVars, fetchVars, crawlVars, dedupeVars, parseVars, countVars, queryVars, searchVars, sessVars, pageVars, rowVars, detVars, saverVars, paramVars>>
    \/ DriverDies
          /\ UNCHANGED <<rlVars, fetchVars, crawlVars, dedupeVars, parseVars, countVars, queryVars, searchVars, sessVars, pageVars, rowVars, detVars, saverVars, paramVars>>
    \/ BuscarPatentes
          /\ UNCHANGED <<rlVars, fetchVars, crawlVars, dedupeVars, parseVars, countVars, queryVars, searchVars, sessVars, pageVars, rowVars, detVars, saverVars, paramVars>>
SpecMode == InitMode /\ [][NextMode]_vars

InitDetalhes ==
    /\ RLInit(0, 0)
    /\ FetchIdle
    /\ CrawlIdle
    /\ DedupeIdle
    /\ ParseIdle
    /\ CountIdle
    /\ QueryIdle
    /\ SearchIdle
    /\ DetalhesSession
    /\ PageIdle
    /\ RowsIdle
    /\ ModeIdle
    /\ DetalhesInit
    /\ SaverIdle
    /\ ParamsIdle
NextDetalhes ==
    \/ EnriquecerComDetalhes
          /\ UNCHANGED <<rlVars, fetchVars, crawlVars, dedupeVars, parseVars, countVars, queryVars, searchVars, pageVars, rowVars, modeVars, saverVars, paramVars>>
    \/ SemDetailUrl
          /\ UNCHANGED <<rlVars, fetchVars, crawlVars, dedupeVars, parseVars, countVars, queryVars, searchVars, pageVars, rowVars, modeVars, saverVars, paramVars>>
    \/ DetailGet
          /\ UNCHANGED <<rlVars, fetchVars, crawlVars, dedupeVars, parseVars, countVars, queryVars, searchVars, pageVars, rowVars, modeVars, saverVars, paramVars>>
    \/ WaitLoading
          /\ UNCHANGED <<rlVars, fetchVars, crawlVars, dedupeVars, parseVars, countVars, queryVars, searchVars, pageVars, rowVars, modeVars, saverVars, paramVars>>
    \/ WaitHeading
          /\ UNCHANGED <<rlVars, fetchVars, crawlVars, dedupeVars, parseVars, countVars, queryVars, searchVars, pageVars, rowVars, modeVars, saverVars, paramVars>>
    \/ DetailRenderWait
          /\ UNCHANGED <<rlVars, fetchVars, crawlVars, dedupeVars, parseVars, countVars, queryVars, searchVars, pageVars, rowVars, modeVars, saverVars, paramVars>>
    \/ ExtractDetails
          /\ UNCHANGED <<rlVars, fetchVars, crawlVars, dedupeVars, parseVars, countVars, queryVars, searchVars, pageVars, rowVars, modeVars, saverVars, paramVars>>
    \/ DetalhesClock
          /\ UNCHANGED <<rlVars, fetchVars, crawlVars, dedupeVars, parseVars, countVars, queryVars, searchVars, pageVars, rowVars, modeVars, saverVars, paramVars>>
SpecDetalhes == InitDetalhes /\ [][NextDetalhes]_vars

InitSaver ==
    /\ RLInit(0, 0)
    /\ FetchIdle
    /\ CrawlIdle
    /\ DedupeIdle
    /\ ParseIdle
    /\ CountIdle
    /\ QueryIdle
    /\ SearchIdle
    /\ SessionsIdle
    /\ PageIdle
    /\ RowsIdle
    /\ ModeIdle
    /\ DetalhesIdle
    /\ SaverInit
    /\ ParamsIdle
NextSaver ==
    \/ AddData
          /\ UNCHANGED <<rlVars, fetchVars, crawlVars, dedupeVars, parseVars, countVars, queryVars, searchVars, sessVars, pageVars, rowVars, modeVars, detVars, paramVars>>
    \/ SaveChunk
          /\ UNCHANGED <<rlVars, fetchVars, crawlVars, dedupeVars, parseVars, countVars, queryVars, searchVars, sessVars, pageVars, rowVars, modeVars, detVars, paramVars>>
    \/ Finalize
          /\ UNCHANGED <<rlVars, fetchVars, crawlVars, dedupeVars, parseVars, countVars, queryVars, searchVars, sessVars, pageVars, rowVars, modeVars, detVars, paramVars>>
SpecSaver == InitSaver /\ [][NextSaver]_vars

InitParams ==
    /\ RLInit(0, 0)
    /\ FetchIdle
    /\ CrawlIdle
    /\ DedupeIdle
    /\ ParseIdle
    /\ CountIdle
    /\ QueryIdle
    /\ SearchIdle
    /\ SessionsIdle
    /\ PageIdle
    /\ RowsIdle
    /\ ModeIdle
    /\ DetalhesIdle
    /\ SaverIdle
    /\ ParamsInit
NextParams ==
    \/ SendSearchRequest
          /\ UNCHANGED <<rlVars, fetchVars, crawlVars, dedupeVars, parseVars, countVars, queryVars, searchVars, sessVars, pageVars, rowVars, modeVars, detVars, saverVars>>
SpecParams == InitParams /\ [][NextParams]_vars

\* Both engines: a search runs either through buscar_patentes or through
\* search_by_molecule
InitEngine == InitCrawl \/ InitSearch
NextEngine == NextCrawl \/ NextSearch
SpecEngine == InitEngine /\ [][NextEngine]_vars

\* A running search is not suspended for ever: every step of it is a call
\* that returns or times out
FairCrawl == SpecCrawl /\ WF_vars(NextCrawl)
----------------------------------------------------------------------------
(* Claims about the fetch clients (SpecFetch) *)

\* The script starts with k responses of status >= 500 followed by a 200
FailsThenOk(k) ==
    /\ k + 1 <= ScriptLen
    /\ \A i \in 1..k : script[i] = "s500"
    /\ script[k + 1] = "s200"

Finished == fpc \in {"returned", "failed"}

\* C1 as stated: after k < max_retries responses of status >= 500 and then a
\* 200, the call returns the body of the 200 after exactly k+1 requests and
\* has called record_success() exactly once.  _fetch_with_retry returns the
\* body without a record_success(): it has no rate limiter to call.
C1_AsStated ==
    \A k \in 0..(ScriptLen - 1) :
        (k < max_retries /\ FailsThenOk(k) /\ Finished) =>
            /\ fpc = "returned"
            /\ requests = k + 1
            /\ fresult.body = ResponseText(k + 1)
            /\ n_success = 1

\* None of the max_retries attempts is answered by a 200
NoAttemptYields200 == \A i \in 1..max_retries : script[i] # "s200"

\* The failure that the claim gives a call whose last attempt ended in
\* outcome `last`, in the names of the failures that the clients raise:
\* Timeout is the exception 'Timeout na ...', NetworkError is 'Erro HTTP:
\* ...' (the except clause of httpx.HTTPError, the class of the transport
\* errors), and RetriesExhausted is 'Falha ao buscar {url} ...'
ReasonAsStated(last) ==
    CASE last = "timeout" -> "Timeout"
      [] last = "neterr"  -> "HTTPError"
      [] OTHER            -> "RetriesExhausted"

\* C2 as stated: when none of the max_retries attempts yields a 200, the
\* call sends exactly max_retries requests, never more, and fails without a
\* body; the failure is RetriesExhausted when the attempts ended in error
\* responses, and Timeout or NetworkError when the last attempt timed out or
\* failed at network level.  _fetch_with_retry fails a last 404 with the
\* failure of a network error, and _make_request fails with tenacity's
\* RetryError whatever the last attempt was, and returns a 204.
C2_AsStated ==
    /\ requests <= max_retries
    /\ (Finished /\ NoAttemptYields200) =>
          /\ fpc = "failed"
          /\ requests = max_retries
          /\ fresult.body = 0
          /\ fresult.reason = ReasonAsStated(script[max_retries])

----------------------------------------------------------------------------
(* Claims about the rate limiter (SpecRL) *)

WaitHasRun == delay > 0

\* C5 as stated: for any configured min_delay and max_delay, the delay that
\* wait() computes lies in [min_delay, max_delay].
C5_AsStated ==
    WaitHasRun => (rate_limiter.min_delay <= delay /\ delay <= rate_limiter.max_delay)

\* C5 amended: when the limiter is configured with 0 < min_delay <= max_delay,
\* the delay that wait() computes lies in [min_delay, max_delay], after any
\* sequence of record_success() and record_error() calls.
C5_DelayInRange ==
    (WaitHasRun /\ 0 < rate_limiter.min_delay
                /\ rate_limiter.min_delay <= rate_limiter.max_delay) =>
        (rate_limiter.min_delay <= delay /\ delay <= rate_limiter.max_delay)

\* wait() has capped an exponential delay at max_delay after two errors
C5_Witness ==
    /\ last_op = "wait"
    /\ err_run >= 2
    /\ rate_limiter.min_delay < rate_limiter.max_delay
    /\ rate_limiter.min_delay * Pow2(err_run) > rate_limiter.max_delay
    /\ delay = rate_limiter.max_delay

\* C6: record_error() increments consecutive_errors and zeroes success_streak,
\* record_success() zeroes consecutive_errors and increments success_streak;
\* so after n >= 1 consecutive record_error() calls the delay of wait() is
\* min(min_delay * 2^n, max_delay), and consecutive_errors is 0 right after
\* any record_success().
C6_Counters ==
    /\ last_op = "record_error" =>
          /\ err_run >= 1
          /\ rate_limiter.consecutive_errors = err_run
          /\ rate_limiter.success_streak = 0
    /\ last_op = "record_success" =>
          /\ ok_run >= 1
          /\ rate_limiter.consecutive_errors = 0
          /\ rate_limiter.success_streak = ok_run
    /\ err_run >= 1 =>
          ComputeDelay(rate_limiter) =
              Min(rate_limiter.min_delay * Pow2(err_run), rate_limiter.max_delay)
    /\ (last_op = "wait" /\ err_run >= 1) =>
          delay = Min(rate_limiter.min_delay * Pow2(err_run), rate_limiter.max_delay)

\* wait() has run after three consecutive errors that followed a success
C6_Witness ==
    /\ last_op = "wait"
    /\ err_run = 3
    /\ rate_limiter.consecutive_errors = 3
    /\ delay = Min(rate_limiter.min_delay * 8, rate_limiter.max_delay)
    /\ rate_limiter.min_delay * 8 > rate_limiter.max_delay

----------------------------------------------------------------------------
(* Claims about the page crawl (SpecCrawl) *)

\* The records of the pages served, in page order
RECURSIVE AllRows(_)
AllRows(events) ==
    IF events = <<>> THEN <<>> ELSE Head(events).rows \o AllRows(Tail(events))

KeepValid(ps) == SelectSeq(ps, validate_patent)

CrawlOver == cpc \in {"returned", "done"}

\* Every look at the portal found a page with records (so a next-page
\* control was there whenever the crawl looked for one)
EveryPageYields ==
    /\ served # <<>>
    /\ \A i \in 1..Len(served) : served[i].kind = "page" /\ served[i].rows # <<>>

\* What _buscar_com_selenium hands to its caller: `return patentes`, the list
\* of records and nothing with it
ReturnValue == [patentes |-> crawl_result]

\* The value returned carries this stop reason
StopReasonIs(reason) ==
    /\ "stopReason" \in DOMAIN ReturnValue
    /\ ReturnValue.stopReason = reason

\* The crawl stopped at the first page that brought the count to limite and
\* returned the first limite records, with stop reason LimitReached
StoppedAtLimit ==
    /\ Len(AllRows(SubSeq(served, 1, Len(served) - 1))) < limite
    /\ Len(crawl_result) = limite
    /\ crawl_result = SubSeq(AllRows(served), 1, limite)
    /\ StopReasonIs("LimitReached")

\* C3 as stated: if every fetched page yields records and a next-page control
\* stays available, the crawl stops at the first page at which the
\* accumulated count reaches limite, fetches no further page and returns
\* exactly the first limite records, with stop reason LimitReached.  The
\* crawl returns the records without a stop reason, and after max_paginas
\* (10) pages it returns with fewer than limite records.
C3_AsStated ==
    (CrawlOver /\ EveryPageYields) => StoppedAtLimit

HasError == \E i \in 1..Len(served) : served[i].kind = "error"

\* A page fetch failed after at least one page had been accumulated
FailedAfterPages == HasError /\ served[1].kind = "page"

\* C4 as stated: when a page fetch fails after at least one page was
\* accumulated, the crawl stops at once, requests no further page and
\* returns all the records accumulated from the earlier pages, not an empty
\* result, tagged with stop reason Error.  The crawl returns the records
\* without a stop reason.
C4_AsStated ==
    FailedAfterPages =>
        /\ CrawlOver
        /\ served[Len(served)].kind = "error"
        /\ \A i \in 1..(Len(served) - 1) : served[i].kind = "page"
        /\ crawl_result = AllRows(served)
        /\ (AllRows(served) # <<>> => crawl_result # <<>>)
        /\ StopReasonIs("Error")

----------------------------------------------------------------------------
(* Claims about duplicate removal (SpecDedupe) *)

\* The key of a record: publicationNumber, or id when that is absent
RecordKey(r) == IF r.publicationNumber # "" THEN r.publicationNumber ELSE r.id

\* For each distinct usable key, the first record with that key, in input order
FirstOccurrences(ps) ==
    LET first(i) == /\ RecordKey(ps[i]) # ""
                    /\ \A j \in 1..(i - 1) : RecordKey(ps[j]) # RecordKey(ps[i])
        RECURSIVE Pick(_)
        Pick(i) == IF i > Len(ps) THEN <<>>
                   ELSE (IF first(i) THEN <<ps[i]>> ELSE <<>>) \o Pick(i + 1)
    IN  Pick(1)

\* C7 as stated: duplicate removal returns, for each distinct key
\* (publicationNumber, or id when publicationNumber is absent), exactly the
\* first record with that key in input order, with its first-encountered
\* values, drops every later record with that key and loses no record that
\* has a usable key.
C7_AsStated ==
    /\ dpc \in {"unique", "nothing"} => patents_list = FirstOccurrences(all_patents)
    /\ (dpc = "grouped" \/ (dpc = "saved" /\ ~detalhes_opts.extrair)) =>
          DictValues(patents_agrupadas) = FirstOccurrences(all_patents)

----------------------------------------------------------------------------
(* Claims about result parsing (SpecParse) *)

\* The values of a list, each distinct value once, at its first place
RECURSIVE Distinct(_)
Distinct(values) ==
    IF values = <<>> THEN <<>>
    ELSE LET init == Distinct(SubSeq(values, 1, Len(values) - 1))
             last == values[Len(values)]
         IN  IF \E i \in 1..Len(init) : init[i] = last THEN init
             ELSE Append(init, last)

\* The union of what all strategies of a cascade produce, in strategy order
\* then document order, duplicates removed
UnionOfStrategies(item, selectors) ==
    Distinct(StripNonEmpty(ExtendAll(item, selectors)))

\* C8 as stated: each multi-valued field (applicants, inventors, IPC codes)
\* of an extracted record is the union of the values of all strategies of
\* its cascade, in strategy order then document order, every distinct value
\* exactly once, also when two strategies match the same element.
C8_AsStated ==
    ppc = "parsed" =>
        \A i \in 1..Len(results) :
            /\ results[i].applicants = UnionOfStrategies(html, applicant_selectors)
            /\ results[i].inventors = UnionOfStrategies(html, inventor_selectors)
            /\ results[i].ipc_codes = UnionOfStrategies(html, ipc_selectors)

\* The result of the first strategy that yields something other than white
\* space; <<>> when no strategy does
RECURSIVE FirstNonBlank(_, _)
FirstNonBlank(item, selectors) ==
    IF selectors = <<>> THEN <<>>
    ELSE LET x == Get(GetAll(item, Head(selectors)))
         IN  IF x # <<>> /\ Strip(x[1]) # <<>> THEN <<Strip(x[1])>>
             ELSE FirstNonBlank(item, Tail(selectors))

\* What the claim gives a singular field: the first non-blank strategy
\* result; with no such result the field is missing or empty
IsFirstNonBlank(field, expected) ==
    IF expected # <<>> THEN field = expected ELSE ~Truthy(field)

\* The publication number cascade ends with the XPath look-up
FirstNonBlankNumber(item) ==
    IF FirstNonBlank(item, pub_selectors) # <<>>
    THEN FirstNonBlank(item, pub_selectors)
    ELSE IF XPathOffice(item) # <<>> THEN <<Strip(XPathOffice(item)[1])>> ELSE <<>>

\* C9 as stated: each singular field (publication number, title, publication
\* date) of an extracted record is the result of the first strategy, in the
\* field's fixed order, that yields a non-empty result; a strategy that
\* yields nothing or only white space does not win.
C9_AsStated ==
    ppc = "parsed" =>
        \A i \in 1..Len(results) :
            /\ IsFirstNonBlank(results[i].title, FirstNonBlank(html, title_selectors))
            /\ IsFirstNonBlank(results[i].publication_date,
                               FirstNonBlank(html, date_selectors))
            /\ IsFirstNonBlank(results[i].publication_number, FirstNonBlankNumber(html))

\* C10 as stated: every record of a returned result set has a non-empty
\* title and a non-empty publication number (or an id derived from it); a
\* record without a title is never returned.
C10_AsStated ==
    /\ ppc \in {"parsed", "answered"} =>
          \A i \in 1..Len(results) :
              /\ Truthy(results[i].title)
              /\ Truthy(results[i].publication_number) \/ Truthy(results[i].patent_id)
    /\ ppc = "answered" =>
          \A i \in 1..Len(patent_results) :
              patent_results[i].title \notin {<<>>, <<"No title">>}
----------------------------------------------------------------------------
(* Claims about the total count (SpecCount) *)

\* The integers written in the first text of the count cascade that holds
\* any: that of the first matching selector, else of the first text with a
\* key word
CountCandidates(page) ==
    LET elems == CountElements(page)
        texts == [i \in 1..Len(elems) |-> elems[i].text]
        byselector(t) == \E k \in 1..Len(total_selectors) :
                            Get(GetAll(elems, total_selectors[k])) = <<t>>
        keyword(t) == \E i \in 1..Len(t) : t[i] \in KeywordChunks
        eligible(t) == (byselector(t) \/ keyword(t)) /\ FindNumbers(t, <<>>) # <<>>
        withnumbers == SelectSeq(texts, eligible)
    IN  IF withnumbers = <<>> THEN {}
        ELSE LET numbers == FindNumbers(withnumbers[1], <<>>)
             IN  { IntOf(numbers[i], 0) : i \in 1..Len(numbers) }

\* C11 as stated: extract_total_results returns the maximum integer
\* (thousands separators accepted) found in the text yielded by the count
\* cascade, and returns none, never 0, when no candidate is found.
C11_AsStated ==
    tpc = "done" =>
        IF CountCandidates(count_page) # {}
        THEN /\ total_results \in CountCandidates(count_page)
             /\ \A n \in CountCandidates(count_page) : n <= total_results
        ELSE total_results # 0
----------------------------------------------------------------------------
(* Claims about query building (SpecQuery) *)

\* Every character of the input, spaces ignored, is of the formula alphabet
AllFormulaChars(input) ==
    \A i \in 1..Len(input) : input[i] = " " \/ input[i] \in FormulaAlphabet

HasSmilesMark(input) == \E i \in 1..Len(input) : input[i] \in SmilesMarks

\* C12: an input whose characters, spaces ignored, are all of the formula
\* alphabet is classified Formula; any other input that contains '@', '/' or
\* a backslash is Smiles; every remaining input is Name.  Every input gets
\* exactly one class, and only a Name gets the all-fields query.
C12_Classifies ==
    qpc = "molecule" =>
        /\ query_class = (IF AllFormulaChars(molecule) THEN "Formula"
                          ELSE IF HasSmilesMark(molecule) THEN "Smiles"
                          ELSE "Name")
        /\ (query[1] = "EN_ALL") <=> (query_class = "Name")
        /\ (query[1] = "EN_AB") <=> (query_class \in {"Formula", "Smiles"})

\* "C 6" was classified Formula: the blank inside it is ignored
C12_Witness ==
    /\ qpc = "molecule"
    /\ molecule = <<"C", " ", "6">>
    /\ query_class = "Formula"

\* C13 as stated: a Formula or Smiles input gives fieldCode:"input" (quoted),
\* a Name input gives fieldCode:(input) (unquoted).
C13_AsStated ==
    qpc = "molecule" =>
        query = (IF query_class \in {"Formula", "Smiles"}
                 THEN <<"EN_AB", ":">> \o <<"\"">> \o Strip(molecule) \o <<"\"">>
                 ELSE <<"EN_ALL", ":", "(">> \o Strip(molecule) \o <<")">>)

\* C13 amended: with the input stripped of surrounding white space, a Formula
\* or Smiles input gives EN_AB:("input"), the quoted input inside the
\* parentheses, and a Name input gives EN_ALL:(input), unquoted.
\* construir_query starts its query with the bare term for campo 'all' (or a
\* campo it does not know) and with fieldCode:(term) for any other campo.
\* Both always return a string.
C13_QueryForm ==
    /\ qpc = "molecule" =>
          query = (IF query_class \in {"Formula", "Smiles"}
                   THEN <<"EN_AB", ":", "(", "\"">> \o Strip(molecule) \o <<"\"", ")">>
                   ELSE <<"EN_ALL", ":", "(">> \o Strip(molecule) \o <<")">>)
    /\ qpc = "construir" =>
          LET start == IF campo = "all" \/ campo \notin DOMAIN SEARCH_FIELDS
                       THEN molecule
                       ELSE <<FieldCode(campo), ":", "(">> \o molecule \o <<")">>
          IN  /\ Len(query) >= Len(start)
              /\ SubSeq(query, 1, Len(start)) = start
              /\ (pais = <<>> /\ data_inicio = <<>>) => query = start

\* " C@" was built as a Smiles query: EN_AB:("C@")
C13_Witness ==
    /\ qpc = "molecule"
    /\ molecule = <<" ", "C", "@">>
    /\ query_class = "Smiles"
    /\ query = <<"EN_AB", ":", "(", "\"", "C", "@", "\"", ")">>
----------------------------------------------------------------------------
(* Claims about one search (SpecSearch) *)

\* ceil(t / size): the least number of pages of that size that hold t records
Ceiling(t, size) == CHOOSE k \in 0..t : k * size >= t /\ (k = 0 \/ (k - 1) * size < t)

\* The pagination that the claim gives page pg of size `size` with count t
PaginationOf(pg, size, t) ==
    LET total_pages == Ceiling(t, size)
    IN  [ current_page |-> pg, page_size |-> size, total_results |-> t,
          total_pages |-> total_pages,
          has_next |-> pg < total_pages, has_previous |-> pg > 1,
          next_page |-> IF pg < total_pages THEN <<pg + 1>> ELSE <<>>,
          previous_page |-> IF pg > 1 THEN <<pg - 1>> ELSE <<>> ]

CountShown == portal.outcome = "ok" /\ portal.shown # <<>> /\ portal.shown[1] > 0

\* C14: a successful search of page p with page size s and extracted total
\* count T > 0 answers currentPage = p, pageSize = s, totalResults = T,
\* totalPages = ceil(T / s), hasNext = (p < totalPages), hasPrevious = (p > 1),
\* nextPage = p + 1 exactly when hasNext, previousPage = p - 1 exactly when
\* hasPrevious.
C14_Pagination ==
    /\ (spc = "answered" /\ CountShown) =>
          /\ response.http_status = <<200>>
          /\ response.pagination =
                <<PaginationOf(req_page, req_page_size, portal.shown[1])>>
    /\ (spc \in {"searched", "answered"} /\ CountShown) =>
          /\ search_result.status = "success"
          /\ search_result.total_results = portal.shown[1]
          /\ search_result.total_pages = Ceiling(portal.shown[1], req_page_size)
          /\ search_result.has_next = (req_page < search_result.total_pages)
          /\ search_result.has_previous = (req_page > 1)
          /\ (search_result.next_page = <<req_page + 1>>) = search_result.has_next
          /\ (search_result.next_page = <<>>) = ~search_result.has_next
          /\ (search_result.previous_page = <<req_page - 1>>) = search_result.has_previous
          /\ (search_result.previous_page = <<>>) = ~search_result.has_previous

\* T = 23, s = 10, p = 1: totalPages 3, hasNext, not hasPrevious
C14_Witness ==
    /\ spc = "answered"
    /\ req_page = 1 /\ req_page_size = 10
    /\ portal.outcome = "ok" /\ portal.shown = <<23>>
    /\ response.pagination[1].total_results = 23
    /\ response.pagination[1].total_pages = 3
    /\ response.pagination[1].has_next
    /\ ~response.pagination[1].has_previous
    /\ response.pagination[1].next_page = <<2>>
----------------------------------------------------------------------------
(* Claims about failed searches (SpecEngine) *)

SearchFailed == spc \in {"searched", "answered"} /\ portal.outcome # "ok"

\* A structured error result of search_by_molecule, answered by POST /search
\* as an error payload without records
StructuredError ==
    /\ search_result.status = "error"
    /\ search_result.error = <<portal.outcome>>
    /\ search_result.results = 0
    /\ search_result.total_results = 0
    /\ ~search_result.has_next
    /\ ~search_result.has_previous
    /\ spc = "answered" =>
          /\ response.status = "error"
          /\ response.results = 0

\* C15 as stated: a search whose fetch fails or whose extraction raises
\* raises nothing past the engine and returns a structured error result
\* with error status, zero records and hasNext = hasPrevious = false.
C15_AsStated ==
    /\ SearchFailed => StructuredError
    /\ (cpc = "done" /\ HasError) => resultados = <<>>
----------------------------------------------------------------------------
(* More claims about the page crawl (SpecCrawl) *)

\* <<page, row>> of a comes before that of b
Before(a, b) == a[1] < b[1] \/ (a[1] = b[1] /\ a[2] < b[2])

IsPrefix(a, b) == Len(a) <= Len(b) /\ a = SubSeq(b, 1, Len(a))

\* C16: result pages are fetched and processed strictly in increasing index
\* order (the k-th page read is page k, read only after the pages before it
\* were extracted), and the returned list is the concatenation of the pages'
\* records in page order, each page's records in document order.
C16_PageOrder ==
    /\ \A k \in 1..Len(served) :
          /\ served[k].kind = "page" =>
                \A j \in 1..Len(served[k].rows) :
                    served[k].rows[j].publicationNumber = <<k, j>>
          /\ k < Len(served) => served[k].kind = "page"
    /\ cpc = "loop" => patentes = AllRows(served)
    /\ CrawlOver =>
          /\ IsPrefix(crawl_result, AllRows(served))
          /\ \A i \in 1..Len(crawl_result), j \in 1..Len(crawl_result) :
                i < j => Before(crawl_result[i].publicationNumber,
                                crawl_result[j].publicationNumber)
    /\ cpc = "done" => resultados = KeepValid(crawl_result)

\* Three pages were read and the list returned starts with both records of
\* page 1 followed by page 2's
C16_Witness ==
    /\ cpc = "returned"
    /\ Len(served) = 3
    /\ \A k \in 1..3 : served[k].kind = "page" /\ Len(served[k].rows) = 2
    /\ Len(crawl_result) >= 4
    /\ crawl_result[1].publicationNumber = <<1, 1>>
    /\ crawl_result[2].publicationNumber = <<1, 2>>
    /\ crawl_result[3].publicationNumber = <<2, 1>>

\* C18 as stated: whenever a fetched page yields zero records, the first
\* page included, the crawl stops after that page and requests no further
\* page: no page is read after an empty one.
C18_AsStated ==
    \A k \in 1..Len(served) :
        (served[k].kind = "page" /\ served[k].rows = <<>>) =>
            \A j \in (k + 1)..Len(served) : served[j].kind # "page"

\* The result pages read so far
PagesFetched == Cardinality({ k \in 1..Len(served) : served[k].kind = "page" })

\* C19: every crawl terminates, and no crawl reads more than max_paginas
\* (10) result pages, whatever the limit asked for and however long the
\* portal keeps offering a next page with records.
C19_Terminates ==
    /\ [](PagesFetched <= max_paginas /\ pagina_atual <= max_paginas)
    /\ <>(cpc = "done")

\* Ten pages were read and the crawl stopped at the page cap
C19_Witness ==
    /\ cpc = "done"
    /\ served[Len(served)].kind = "page"
    /\ PagesFetched = max_paginas
    /\ pagina_atual = max_paginas
    /\ Len(crawl_result) < limite

\* What another session can observe of scraper t's limiter
Observed(t) ==
    [consecutive_errors |-> Limiter(t).consecutive_errors,
     success_streak     |-> Limiter(t).success_streak,
     since_last         |-> Limiter(t).since_last,
     delay              |-> ComputeDelay(Limiter(t))]

LimiterCalls == {"wait", "record_success", "record_error"}

\* C17: each session owns its limiter: a wait(), record_success() or
\* record_error() made by one session leaves the consecutive_errors,
\* success_streak, last_request_time and computed delay of every other
\* session's limiter as they were, whatever the interleaving.  The time
\* since last_request_time stands for last_request_time: no time passes
\* in the step of a limiter call.
C17_Isolation ==
    [][\A t \in Sessions :
          (/\ last_call'.op \in LimiterCalls
           /\ last_call'.session # t
           /\ scrapers[t].pc # "none")
          => /\ scrapers'[t].pc # "none"
             /\ Observed(t)' = Observed(t)]_vars

\* Two scrapers are built, one has just recorded an error while the other
\* is on a success streak
C17_Witness ==
    /\ \A s \in Sessions : scrapers # <<>> /\ scrapers[s].pc # "none"
    /\ last_call = Call(1, "record_error")
    /\ Limiter(1).consecutive_errors = 1
    /\ Limiter(2).success_streak = 1
    /\ Limiter(2).consecutive_errors = 0

\* C20 as stated: every request that reaches the portal (first result page,
\* next-page advance, detail fetch) was preceded by the wait() of its
\* session's limiter and reported with record_success() or record_error().
C20_AsStated ==
    \A r \in portal_log :
        /\ r.waited
        /\ r.reported \in {"success", "error"}

----------------------------------------------------------------------------
(* More claims about the fetch clients (SpecFetch) *)

\* The requests sent so far that a 404 answered
ClientErrors == { i \in 1..requests : script[i] = "s404" }

\* A 404 is retried: the call ends on a 404 only at its last attempt, failed
RetriedLikeAnyFailure ==
    \A i \in ClientErrors :
        (Finished /\ requests = i) =>
            /\ i = max_retries
            /\ fpc = "failed"
            /\ attempt = i

\* C21 as stated: a 404 is an error that calls record_error() and is retried
\* like any other failure: it uses one attempt, and the call fails only once
\* max_retries attempts have been used.  _fetch_with_retry retries the 404
\* without a record_error(): it has no rate limiter to call.
C21_AsStated ==
    /\ RetriedLikeAnyFailure
    /\ n_error >= Cardinality(ClientErrors)

----------------------------------------------------------------------------
(* Claims about a page of several items (SpecItems) *)

\* The records of the page's items, each item parsed as a page of its own
RECURSIVE EachAlone(_)
EachAlone(items) ==
    IF items = <<>> THEN <<>>
    ELSE parse_search_results(Head(items)) \o EachAlone(Tail(items))

\* The detail links of an item
DetailLinks(item) == SelectSeq(item, LAMBDA e : e.docId # <<>>)

\* The identifier of a record of this item is the docId of its detail link
\* when it has one, and its publication number otherwise
IdentifierResolved(item, r) ==
    IF DetailLinks(item) # <<>>
    THEN r.patent_id = <<DetailLinks(item)[1].docId>>
    ELSE r.patent_id = r.publication_number

----------------------------------------------------------------------------
(* More claims about the rate limiter (SpecRL) *)

\* This step is a wait() call: it is the only step that brings the time
\* since the last request back to zero
WaitReturns == last_op' = "wait" /\ rate_limiter'.since_last = 0

\* C23: between the return of one wait() and the return of the next at
\* least the delay computed by the later one elapses; a wait() called when
\* that much time has already passed since last_request_time does not
\* sleep; and every wait() sets last_request_time to its time of return.
C23_Spacing ==
    [][WaitReturns =>
          /\ delay' = ComputeDelay(rate_limiter)
          /\ rate_limiter.since_last + slept' >= delay'
          /\ rate_limiter.since_last >= delay' => slept' = 0
          /\ rate_limiter.since_last < delay' =>
                rate_limiter.since_last + slept' = delay'
          /\ rate_limiter'.since_last = 0]_vars

\* A wait() called one second after the last one slept the rest of its
\* delay, and no more
C23_Witness ==
    /\ last_op = "wait"
    /\ rate_limiter.since_last = 0
    /\ slept > 0
    /\ slept + TicksPerSecond = delay

----------------------------------------------------------------------------
(* Claims about the row extraction of the Selenium scraper (SpecRows) *)

Trimmed(t) == Strip(t) = t

\* C24 as stated: every string field of a returned record has no leading or
\* trailing white space, and no entry of a list field is empty after
\* trimming, whatever separators or blank segments the markup held.
C24_AsStated ==
    \A k \in 1..Len(patentes_pagina) :
        LET r == patentes_pagina[k]
        IN  /\ Trimmed(r.publicationNumber)
            /\ Trimmed(r.title)
            /\ \A i \in 1..Len(r.applicants) :
                  Trimmed(r.applicants[i]) /\ r.applicants[i] # <<>>

\* What the loop does with a row that is the only row of its table
Alone(row) == ExtractRows(<<row>>, Unbound)[1]

\* The record that an outcome adds to the list, <<>> when the row is dropped
Yield(out) == IF out.outcome = "appended" THEN out.patente ELSE <<>>

\* C25 as stated: every row of a page yields the record, or the drop, that
\* it would yield as the only row, whatever rows precede it.
C25_AsStated ==
    xpc = "extracted" =>
        \A i \in 1..Len(result_rows) :
            Yield(row_outcomes[i]) = Yield(Alone(result_rows[i]))

----------------------------------------------------------------------------
(* Claims about production and demonstration mode (SpecMode) *)

\* C26 as stated: a scraper constructed with use_demo_mode=False never
\* returns demonstration records from buscar_patentes; when the driver
\* cannot be started the result is empty or partial, not fabricated.
C26_AsStated ==
    ~mode_arg =>
        \A k \in 1..Len(busca_result) : busca_result[k].fonte # "PatentScope (DEMO)"

----------------------------------------------------------------------------
(* Claims about the detail enrichment (SpecDetalhes) *)

\* C27 as stated: the list returned holds exactly one record per input
\* patent, in input order, each the input patent itself or that patent with
\* details added; max_detalhes limits the detail fetches only and removes
\* no patent from the list.
C27_AsStated ==
    epc = "enriched" =>
        /\ Len(enriquecidas) = Len(det_patentes)
        /\ \A i \in 1..Len(enriquecidas) :
              \/ enriquecidas[i] = det_patentes[i]
              \/ enriquecidas[i] = obter_detalhes_completos(det_patentes[i], TRUE)

----------------------------------------------------------------------------
(* Claims about the incremental saver (SpecSaver) *)

\* The records of a list of chunk files, in the order written
RECURSIVE Concat(_)
Concat(files) ==
    IF files = <<>> THEN <<>> ELSE Head(files).records \o Concat(Tail(files))

\* The files that save_chunk wrote to the end
Completed(files) == SelectSeq(files, LAMBDA f : f.complete)

Added == [i \in 1..adds |-> i]

\* C28 as stated: after any sequence of add_data, save_chunk and finalize
\* calls, total_saved + len(current_data) is the number of add_data calls,
\* no record is lost or written twice, the buffer holds fewer than
\* chunk_size records after every add_data, and it is empty after finalize.
C28_AsStated ==
    /\ saver.total_saved + Len(saver.current_data) = adds
    /\ Concat(chunk_files) \o saver.current_data = Added
    /\ saver_call.op = "add_data" => Len(saver.current_data) < saver.chunk_size
    /\ saver_call.op = "finalize" => saver.current_data = <<>>

\* C28 amended: after any sequence of the three calls, raising or not,
\* total_saved + len(current_data) is the number of add_data calls, and the
\* chunk files written to the end hold the first total_saved records added,
\* each once and in order, the buffer holding the rest; the buffer holds
\* fewer than chunk_size records after every add_data that returns and is
\* empty after every finalize that returns.  A save_chunk that raises leaves
\* the saver as it was, and a file that its write left behind holds records
\* of the buffer only, which a later save_chunk writes again.
C28_NothingLost ==
    /\ saver.total_saved + Len(saver.current_data) = adds
    /\ saver.total_saved = Len(Concat(Completed(chunk_files)))
    /\ Concat(Completed(chunk_files)) \o saver.current_data = Added
    /\ (saver_call.op = "add_data" /\ ~saver_call.raised) =>
          Len(saver.current_data) < saver.chunk_size
    /\ (saver_call.op = "finalize" /\ ~saver_call.raised) =>
          saver.current_data = <<>>
    /\ saver_call.raised =>
          /\ saver.current_data # <<>>
          /\ saver_call.op = "add_data" =>
                Len(saver.current_data) >= saver.chunk_size
    /\ \A i \in 1..Len(chunk_files) :
          ~chunk_files[i].complete =>
              /\ chunk_files[i].index <= saver.total_saved
              /\ \A j \in 1..Len(chunk_files[i].records) :
                    chunk_files[i].records[j] = chunk_files[i].index + j

\* A write of records 1 and 2 failed after the first record; the save_chunk
\* that followed wrote both, and the add_data of records 3 and 4 saved them
C28_Witness ==
    /\ saver.chunk_size = 2
    /\ saver_call = [op |-> "add_data", raised |-> FALSE]
    /\ adds = 4
    /\ saver.total_saved = 4
    /\ saver.current_data = <<>>
    /\ chunk_files = << ChunkFile(0, <<1>>, FALSE), ChunkFile(0, <<1, 2>>, TRUE),
                        ChunkFile(2, <<3, 4>>, TRUE) >>

----------------------------------------------------------------------------
(* More claims about one search (SpecSearch) *)

Succeeded == spc \in {"searched", "answered"} /\ search_result.status = "success"

\* C29 as stated: in every successful search response totalResults is at
\* least the number of records on the page, and a page that holds at least
\* one record has currentPage <= totalPages.
C29_AsStated ==
    Succeeded =>
        /\ search_result.total_results >= search_result.results
        /\ search_result.results >= 1 =>
              search_result.page <= search_result.total_pages

----------------------------------------------------------------------------
(* Claims about the request of one search (SpecParams) *)

\* C30: the query string built for an input does not depend on searchType:
\* exact, similarity and substructure searches of the same molecule, page
\* and page size send identical request parameters to the portal.
C30_TypeIndependent ==
    sent_params # None =>
        \A stype \in SearchTypes :
            /\ QueryFor(param_molecule, stype) = sent_params[1].query
            /\ RequestParams(param_molecule, stype, param_page, param_page_size)
                  = sent_params[1]

\* A similarity search of "C6", page 2 of size 10, sent the parameters of
\* the exact search
C30_Witness ==
    /\ search_type = "similarity"
    /\ param_molecule = <<"C", "6">>
    /\ param_page = 2
    /\ param_page_size = 10
    /\ sent_params = << [ query |-> <<"EN_AB", ":", "(", "\"", "C", "6", "\"", ")">>,
                          office |-> "all", sortOption |-> "Relevance",
                          maxRec |-> 10, startRec |-> 11 ] >>

====
